---------------------------- MODULE Spec2Model ----------------------------
(***************************************************************************)
(* A model of tempita_lite.py: lex, trim_lex, parse and the tree-walking   *)
(* interpreter behind Template.substitute.                                 *)
(*                                                                         *)
(* Text is modelled as a sequence of one-character strings, so that the    *)
(* regular expressions and the str methods of the source are computed      *)
(* character by character.  Offsets are 0-based as in Python; Slice(x,a,b) *)
(* is x[a:b].                                                              *)
(***************************************************************************)
EXTENDS Integers, Sequences, FiniteSets, TLC

VARIABLES
    pc,               \* position of the driver: which call comes next
    s,                \* the source text handed to lex
    trim_whitespace,  \* lex's trim_whitespace argument
    line_offset,      \* lex's line_offset argument
    chunks,           \* the token list lex / trim_lex returned (<<>> when none)
    exc,              \* the exception a call raised, NoExc when none
    passes,           \* how many times trim_lex ran on chunks
    parsed,           \* the list of nodes parse returned (<<>> when none)
    call,             \* the caller's render: a library template and a mapping
    tmpl,             \* the Template whose substitute runs next
    kw,               \* the mapping handed to that substitute
    rt,               \* the interpreter state the last substitute ended with
    chain,            \* what each substitute so far rendered, child first
    output,           \* the text substitute returned to the caller
    held,             \* the caller's objects: its template and its mapping
    history           \* how each render of the caller ended, oldest first

lex_vars == <<s, trim_whitespace, line_offset, chunks, passes, parsed>>

render_vars == <<call, tmpl, kw, rt, chain, output, held, history>>

vars == <<pc, s, trim_whitespace, line_offset, chunks, exc, passes, parsed,
          call, tmpl, kw, rt, chain, output, held, history>>

(***************************************************************************)
(* Bounds of the checked input space.                                      *)
(***************************************************************************)
MaxLexLen == 6
MaxTrimDirs == 2
MaxPasses == 2
MaxList == 4        \* longest list a single loop iterates over
MaxInner == 2       \* longest list of each of two nested loops
MaxUnpack == 3      \* longest list of elements to unpack
MaxDepth == 4       \* the recursion limit: most substitute calls nested in one another
MaxPositionPieces == 4   \* most pieces of a source with several directives
MaxRenders == 2     \* most renders a caller asks of one template
MaxParseLen == 4    \* most pieces (directives and literals) of a parsed source

(***************************************************************************)
(* str helpers                                                             *)
(***************************************************************************)
Slice(x, a, b) == SubSeq(x, a + 1, b)

startswith(x, p) == Len(p) <= Len(x) /\ SubSeq(x, 1, Len(p)) = p

endswith(x, p) == Len(p) <= Len(x) /\ SubSeq(x, Len(x) - Len(p) + 1, Len(x)) = p

\* x.startswith(p, a): p occurs in x at offset a
occursAt(x, p, a) == a + Len(p) <= Len(x) /\ SubSeq(x, a + 1, a + Len(p)) = p

isspace(c) == c \in {" ", "\t", "\n", "\r"}

ishspace(c) == c \in {" ", "\t"}

RECURSIVE lstrip(_)
lstrip(x) == IF x # <<>> /\ isspace(Head(x)) THEN lstrip(Tail(x)) ELSE x

RECURSIVE rstrip(_)
rstrip(x) ==
    IF x # <<>> /\ isspace(x[Len(x)]) THEN rstrip(SubSeq(x, 1, Len(x) - 1)) ELSE x

strip(x) == rstrip(lstrip(x))

\* string.count(c, a, b) for a one-character c
count(x, c, a, b) == Cardinality({k \in (a + 1)..b : x[k] = c})

\* string.rfind(c, a, b) for a one-character c: the highest offset, or -1
rfind(x, c, a, b) ==
    LET hits == {k \in a..(b - 1) : x[k + 1] = c}
    IN  IF hits = {} THEN -1 ELSE CHOOSE k \in hits : \A j \in hits : j <= k

\* the index of the first test of tests that holds
FirstOf(tests) ==
    CHOOSE i \in 1..Len(tests) : tests[i] /\ \A j \in 1..(i - 1) : ~tests[j]

(***************************************************************************)
(* Exceptions and tokens                                                   *)
(***************************************************************************)
NoExc == [type |-> "none"]

TemplateError(msg, position, name) ==
    [type |-> "TemplateError", msg |-> msg, position |-> position, name |-> name]

\* a literal chunk (a str) and a directive chunk (a tuple (text, pos))
Str(text) == [t |-> "str", v |-> text]
Tup(text, pos) == [t |-> "tup", v |-> text, pos |-> pos]

(***************************************************************************)
(* lex                                                                     *)
(***************************************************************************)
delimeters == << <<"{", "{">>, <<"}", "}">> >>

\* a delimiter occurs in x at offset k
delimiter_at(x, k) ==
    occursAt(x, delimeters[1], k) \/ occursAt(x, delimeters[2], k)

\* The offsets at which token_re.finditer(s) matches: a delimiter, two
\* characters long, is passed over exactly when the match before it starts
\* one offset earlier, so in a run of delimiters at adjacent offsets every
\* second one matches, the first of the run included
match_starts(x, p) ==
    {k \in p..(Len(x) - 1) :
        /\ delimiter_at(x, k)
        /\ \E a \in p..k :
              /\ \A j \in a..k : delimiter_at(x, j)
              /\ a = p \/ ~delimiter_at(x, a - 1)
              /\ (k - a) % 2 = 0}

\* token_re.finditer(s): the leftmost non-overlapping delimiter matches, in
\* the order of their offsets
finditer(x, p) ==
    LET starts == match_starts(x, p)
        nth(i) == CHOOSE k \in starts : Cardinality({j \in starts : j < k}) = i - 1
        group(k) == IF occursAt(x, delimeters[1], k) THEN delimeters[1]
                                                     ELSE delimeters[2]
    IN  [i \in 1..Cardinality(starts) |->
            [start |-> nth(i), end |-> nth(i) + Len(group(nth(i))),
             group |-> group(nth(i))]]

\* a column counted from the previous delimiter alone, its column forgotten
find_position_from_last(string, index, last_index, last_pos) ==
    LET lines == count(string, "\n", last_index, index)
        column == IF lines > 0
                  THEN index - rfind(string, "\n", last_index, index)
                  ELSE 1 + (index - last_index)
    IN  <<last_pos[1] + lines, column>>

find_position(string, index, last_index, last_pos) ==
    LET lines == count(string, "\n", last_index, index)
        column == IF lines > 0
                  THEN index - rfind(string, "\n", last_index, index)
                  ELSE last_pos[2] + (index - last_index)
    IN  <<last_pos[1] + lines, column>>

\* lex_end without the "if in_expr: raise" check
lex_end_unchecked(x, name, st) ==
    LET part == Slice(x, st.last, Len(x))
    IN  [exc |-> NoExc,
         chunks |-> IF part # <<>> THEN Append(st.chunks, Str(part)) ELSE st.chunks]

\* The code of lex after its loop, st being the loop's final state
\* [in_expr, chunks, last, last_pos]: [exc, chunks]
lex_end(x, name, st) ==
    IF st.in_expr
    THEN [exc |-> TemplateError("No close delimiter to finish last expression",
                                st.last_pos, name),
          chunks |-> <<>>]
    ELSE LET part == Slice(x, st.last, Len(x))
         IN  [exc |-> NoExc,
              chunks |-> IF part # <<>> THEN Append(st.chunks, Str(part))
                                        ELSE st.chunks]

\* The delimiter checks at the head of lex's loop body: the exception raised
\* for the match, NoExc when it is accepted
lex_check(expr, in_expr, pos, name) ==
    IF expr = delimeters[1] /\ in_expr
    THEN TemplateError("open delimiter inside expression", pos, name)
    ELSE IF expr = delimeters[2] /\ ~in_expr
    THEN TemplateError("close delimiter outside expression", pos, name)
    ELSE NoExc

\* One turn of lex's "for match in token_re.finditer(s)" loop, st being the
\* loop's state [in_expr, chunks, last, last_pos, exc]
lex_turn(x, name, match, st) ==
    LET expr == match.group
        pos == find_position(x, match.end, st.last, st.last_pos)
        bad == lex_check(expr, st.in_expr, pos, name)
        part == Slice(x, st.last, match.start)
    IN  CASE bad.type # "none" -> [st EXCEPT !.exc = bad]
          [] bad.type = "none" /\ expr = delimeters[1] ->
                [in_expr |-> TRUE,
                 chunks |-> IF part # <<>> THEN Append(st.chunks, Str(part))
                                           ELSE st.chunks,
                 last |-> match.end, last_pos |-> pos, exc |-> NoExc]
          [] OTHER ->
                [in_expr |-> FALSE,
                 chunks |-> Append(st.chunks, Tup(part, st.last_pos)),
                 last |-> match.end, last_pos |-> pos, exc |-> NoExc]

\* The turns of the loop for the matches lo..hi in order, one half of the
\* range after the other; a raise ends the loop
RECURSIVE lex_loop(_, _, _, _, _, _)
lex_loop(x, name, matches, lo, hi, st) ==
    CASE lo > hi \/ st.exc.type # "none" -> st
      [] lo = hi /\ st.exc.type = "none" -> lex_turn(x, name, matches[lo], st)
      [] OTHER -> lex_loop(x, name, matches, (lo + hi) \div 2 + 1, hi,
                           lex_loop(x, name, matches, lo, (lo + hi) \div 2, st))

\* what lex has on leaving its loop in the state st: the exception the loop
\* raised, or what its last lines do
lex_return(x, name, st) ==
    IF st.exc.type # "none" THEN [exc |-> st.exc, chunks |-> <<>>]
    ELSE lex_end(x, name, st)

\* lex's loop over all of matches, from the state lex sets up
lex_matches(x, name, offset, matches) ==
    lex_loop(x, name, matches, 1, Len(matches),
             [in_expr |-> FALSE, chunks |-> <<>>, last |-> 0,
              last_pos |-> <<offset + 1, 1>>, exc |-> NoExc])

\* lex without its final trim_lex call: [exc, chunks]
lex_chunks(x, name, offset) ==
    lex_return(x, name, lex_matches(x, name, offset, finditer(x, 0)))

(***************************************************************************)
(* trim_lex                                                                *)
(***************************************************************************)
\* statement_re = ^(?:if |elif |for |def |inherit |default)
statement_re(item) ==
    \/ startswith(item, <<"i", "f", " ">>)
    \/ startswith(item, <<"e", "l", "i", "f", " ">>)
    \/ startswith(item, <<"f", "o", "r", " ">>)
    \/ startswith(item, <<"d", "e", "f", " ">>)
    \/ startswith(item, <<"i", "n", "h", "e", "r", "i", "t", " ">>)
    \/ startswith(item, <<"d", "e", "f", "a", "u", "l", "t">>)

single_statements ==
    { <<"e", "l", "s", "e">>,
      <<"e", "n", "d", "i", "f">>,
      <<"e", "n", "d", "f", "o", "r">>,
      <<"e", "n", "d", "d", "e", "f">>,
      <<"c", "o", "n", "t", "i", "n", "u", "e">>,
      <<"b", "r", "e", "a", "k">> }

\* Python's $ (no MULTILINE): the end of the string, or just before a line
\* break that ends the string
at_dollar(x, p) == p = Len(x) \/ (p = Len(x) - 1 /\ x[Len(x)] = "\n")

\* trail_whitespace_re = \n\r?[\t ]*$ : the offsets at which a match starts
trail_starts(x) ==
    {k \in 0..(Len(x) - 1) :
        /\ x[k + 1] = "\n"
        /\ \E r \in {0, 1} : \E e \in (k + 1 + r)..Len(x) :
              /\ r = 1 => (k + 2 <= Len(x) /\ x[k + 2] = "\r")
              /\ \A j \in (k + 2 + r)..e : ishspace(x[j])
              /\ at_dollar(x, e)}

\* trail_whitespace_re.search(x) is not None
trail_whitespace_re(x) == trail_starts(x) # {}

\* trail_whitespace_re.search(x).start(): the leftmost match
trail_start(x) == CHOOSE k \in trail_starts(x) : \A j \in trail_starts(x) : k <= j

\* lead_whitespace_re = ^[\t ]*\n : the offsets at which the match can end
lead_ends(x) ==
    {e \in 1..Len(x) : x[e] = "\n" /\ \A j \in 1..(e - 1) : ishspace(x[j])}

lead_whitespace_re(x) == lead_ends(x) # {}

\* lead_whitespace_re.search(x).end()
lead_end(x) == CHOOSE e \in lead_ends(x) : TRUE

None == -1

\* tokens with the token at 0-based index i replaced
SetItem(tokens, i, v) == [tokens EXCEPT ![i + 1] = v]

\* "not x.strip()"
blank(x) == strip(x) = <<>>

\* The body of trim_lex's "for i in range(len(tokens))" loop for one directive
\* token whose stripped text is item; returns [tokens, last_trim].
trim_one(tokens0, i, item, last_trim) ==
    LET tokens == SetItem(tokens0, i, [tokens0[i + 1] EXCEPT !.v = item])
        n == Len(tokens)
    IN  IF ~statement_re(item) /\ item \notin single_statements
        THEN [tokens |-> tokens, last_trim |-> last_trim]
        ELSE
        LET prevtok == IF i = 0 THEN Str(<<>>) ELSE tokens[i]
            nexttok == IF i + 1 >= n THEN Str(<<>>) ELSE tokens[i + 2]
        IN  IF nexttok.t # "str" \/ prevtok.t # "str"
            THEN [tokens |-> tokens, last_trim |-> last_trim]
            ELSE
            LET prev == prevtok.v
                next_chunk == nexttok.v
                ok1 == prev = <<>> \/ trail_whitespace_re(prev)
                ok2 == ok1 \/ (i = 1 /\ blank(prev))
                prev_ok == IF last_trim # None /\ last_trim + 2 = i /\ blank(prev)
                           THEN "last"
                           ELSE IF ok2 THEN "yes" ELSE "no"
                next_ok == \/ next_chunk = <<>>
                           \/ lead_whitespace_re(next_chunk)
                           \/ (i = n - 2 /\ blank(next_chunk))
            IN  IF ~(prev_ok # "no" /\ next_ok)
                THEN [tokens |-> tokens, last_trim |-> last_trim]
                ELSE
                LET t1 == IF prev = <<>> THEN tokens
                          ELSE IF (i = 1 /\ blank(prev)) \/ prev_ok = "last"
                               THEN SetItem(tokens, i - 1, Str(<<>>))
                               ELSE SetItem(tokens, i - 1,
                                            Str(Slice(prev, 0, trail_start(prev) + 1)))
                    t2 == IF next_chunk = <<>> THEN t1
                          ELSE IF i = n - 2 /\ blank(next_chunk)
                               THEN SetItem(t1, i + 1, Str(<<>>))
                               ELSE SetItem(t1, i + 1,
                                            Str(Slice(next_chunk, lead_end(next_chunk),
                                                      Len(next_chunk))))
                IN  [tokens |-> t2,
                     last_trim |-> IF next_chunk = <<>> THEN last_trim ELSE i]

\* One turn of trim_lex's loop, st being [tokens, last_trim]: a str token
\* is left alone
trim_turn(i, st) ==
    IF st.tokens[i + 1].t = "str" THEN st
    ELSE trim_one(st.tokens, i, strip(st.tokens[i + 1].v), st.last_trim)

\* The turns lo..hi of "for i in range(len(tokens))" in order, one half of
\* the range after the other; no turn is beyond len(tokens)
RECURSIVE trim_loop(_, _, _)
trim_loop(lo, hi, st) ==
    CASE lo > hi \/ lo >= Len(st.tokens) -> st
      [] lo = hi /\ lo < Len(st.tokens) -> trim_turn(lo, st)
      [] OTHER -> trim_loop((lo + hi) \div 2 + 1, hi,
                            trim_loop(lo, (lo + hi) \div 2, st))

trim_lex(tokens) ==
    trim_loop(0, Len(tokens) - 1, [tokens |-> tokens, last_trim |-> None]).tokens

\* lex(s, name, trim_whitespace, line_offset): [exc, chunks]
lex(x, name, trim, offset) ==
    LET r == lex_chunks(x, name, offset)
    IN  IF r.exc.type # "none" \/ ~trim THEN r
        ELSE [exc |-> NoExc, chunks |-> trim_lex(r.chunks)]

(***************************************************************************)
(* parse                                                                   *)
(***************************************************************************)
Letters ==
    {"a", "b", "c", "d", "e", "f", "g", "h", "i", "j", "k", "l", "m", "n", "o",
     "p", "q", "r", "s", "t", "u", "v", "w", "x", "y", "z",
     "A", "B", "C", "D", "E", "F", "G", "H", "I", "J", "K", "L", "M", "N", "O",
     "P", "Q", "R", "S", "T", "U", "V", "W", "X", "Y", "Z"}

Digits == {"0", "1", "2", "3", "4", "5", "6", "7", "8", "9"}

\* var_re = ^[a-z_][a-z0-9_]*$ with re.I, on a stripped text
var_re(x) ==
    /\ x # <<>>
    /\ x[1] \in Letters \cup {"_"}
    /\ \A k \in 2..Len(x) : x[k] \in Letters \cup Digits \cup {"_"}

\* the number of whitespace characters of x from offset p on
RECURSIVE wsrun(_, _)
wsrun(x, p) == IF p < Len(x) /\ isspace(x[p + 1]) THEN 1 + wsrun(x, p + 1) ELSE 0

\* in_re = \s+in\s+ : the offsets p at which a match starts
in_starts(x) ==
    {p \in 0..(Len(x) - 1) :
        /\ wsrun(x, p) > 0
        /\ occursAt(x, <<"i", "n">>, p + wsrun(x, p))
        /\ wsrun(x, p + wsrun(x, p) + 2) > 0}

\* in_re.search(x): [start, end] of the leftmost match
in_re(x) ==
    LET p == CHOOSE p \in in_starts(x) : \A j \in in_starts(x) : p <= j
        q == p + wsrun(x, p) + 2
    IN  [start |-> p, end |-> q + wsrun(x, q)]

Range(f) == {f[k] : k \in DOMAIN f}

\* x.split(c) for a one-character c
RECURSIVE split(_, _)
split(x, c) ==
    LET hits == {k \in 1..Len(x) : x[k] = c}
        k0 == CHOOSE k \in hits : \A j \in hits : k <= j
    IN  IF hits = {} THEN <<x>>
        ELSE <<SubSeq(x, 1, k0 - 1)>> \o split(SubSeq(x, k0 + 1, Len(x)), c)

\* x.split(c, 1)
split1(x, c) ==
    LET hits == {k \in 1..Len(x) : x[k] = c}
        k0 == CHOOSE k \in hits : \A j \in hits : k <= j
    IN  IF hits = {} THEN <<x>>
        ELSE <<SubSeq(x, 1, k0 - 1), SubSeq(x, k0 + 1, Len(x))>>

\* x.split(None, 1)[1] for a stripped x of at least two words
split_rest(x) ==
    LET ws == {k \in 1..Len(x) : isspace(x[k])}
        k0 == CHOOSE k \in ws : \A j \in ws : k <= j
    IN  lstrip(SubSeq(x, k0, Len(x)))

\* [v.strip() for v in x.split(',') if v.strip()]
RECURSIVE stripped_nonempty(_)
stripped_nonempty(parts) ==
    IF parts = <<>> THEN <<>>
    ELSE IF strip(Head(parts)) = <<>> THEN stripped_nonempty(Tail(parts))
    ELSE <<strip(Head(parts))>> \o stripped_nonempty(Tail(parts))

\* what a parse function returns (node, tokens) or raises (exc)
POk(node, rest) == [exc |-> NoExc, node |-> node, tokens |-> rest]
PErr(e) == [exc |-> e, node |-> Str(<<>>), tokens |-> <<>>]

\* first[:-1] if first.endswith(':')
strip_colon(first) ==
    IF endswith(first, <<":">>) THEN SubSeq(first, 1, Len(first) - 1) ELSE first

RECURSIVE parse_expr(_, _, _)
RECURSIVE parse_cond_loop(_, _, _, _, _)
RECURSIVE parse_one_cond(_, _, _)
RECURSIVE parse_one_cond_loop(_, _, _, _, _)
RECURSIVE parse_for_loop(_, _, _, _, _)
RECURSIVE parse_def_loop(_, _, _, _, _)

\* a block closed by the end word of any kind of block
is_directive_any_end(tokens, word) ==
    /\ tokens # <<>>
    /\ tokens[1].t = "tup"
    /\ tokens[1].v \in {<<"e", "n", "d", "i", "f">>, <<"e", "n", "d", "f", "o", "r">>, <<"e", "n", "d", "d", "e", "f">>}

\* "isinstance(tokens[0], tuple) and tokens[0][0] == word"
is_directive(tokens, word) ==
    tokens # <<>> /\ tokens[1].t = "tup" /\ tokens[1].v = word

\* the "while 1" loop of parse_cond
parse_cond_loop(tokens, name, context, start, pieces) ==
    LET end == is_directive(tokens, <<"e", "n", "d", "i", "f">>)
        r == parse_one_cond(tokens, name, context)
    IN  CASE tokens = <<>> -> PErr(TemplateError("Missing {{endif}}", start, name))
          [] end -> POk([t |-> "cond", pos |-> start, parts |-> pieces], Tail(tokens))
          [] tokens # <<>> /\ ~end /\ r.exc.type # "none" -> r
          [] OTHER -> parse_cond_loop(r.tokens, name, context, start,
                                      Append(pieces, r.node))

parse_cond(tokens, name, context) ==
    parse_cond_loop(tokens, name, Append(context, "if"), tokens[1].pos, <<>>)

\* the "while 1" loop of parse_one_cond; returns the branch's content as node
parse_one_cond_loop(tokens, name, context, pos, content) ==
    LET end == /\ tokens # <<>>
               /\ tokens[1].t = "tup"
               /\ \/ tokens[1].v = <<"e", "n", "d", "i", "f">>
                  \/ startswith(tokens[1].v, <<"e", "l", "i", "f", " ">>)
                  \/ tokens[1].v = <<"e", "l", "s", "e">>
        r == parse_expr(tokens, name, context)
    IN  CASE tokens = <<>> -> PErr(TemplateError("No {{endif}}", pos, name))
          [] end -> POk(content, tokens)
          [] tokens # <<>> /\ ~end /\ r.exc.type # "none" -> r
          [] OTHER -> parse_one_cond_loop(r.tokens, name, context, pos,
                                          Append(content, r.node))

parse_one_cond(tokens, name, context) ==
    LET pos == tokens[1].pos
        first == strip_colon(tokens[1].v)
        part == <<"if", "elif", "else", "">>[
                    FirstOf(<<startswith(first, <<"i", "f", " ">>),
                              startswith(first, <<"e", "l", "i", "f", " ">>),
                              first = <<"e", "l", "s", "e">>,
                              TRUE>>)]
        body == parse_one_cond_loop(Tail(tokens), name, context, pos, <<>>)
    IN  CASE part = "" -> PErr([type |-> "AssertionError", msg |-> "Unexpected token"])
          [] part # "" /\ body.exc.type # "none" -> body
          [] part = "if" /\ body.exc.type = "none" ->
                POk([t |-> "if", pos |-> pos,
                     expr |-> lstrip(Slice(first, 3, Len(first))),
                     content |-> body.node], body.tokens)
          [] part = "elif" /\ body.exc.type = "none" ->
                POk([t |-> "elif", pos |-> pos,
                     expr |-> lstrip(Slice(first, 5, Len(first))),
                     content |-> body.node], body.tokens)
          [] OTHER -> POk([t |-> "else", pos |-> pos, expr |-> <<>>,
                           content |-> body.node], body.tokens)

\* the "while 1" loop of parse_for
parse_for_loop(tokens, name, context, head, content) ==
    LET end == is_directive(tokens, <<"e", "n", "d", "f", "o", "r">>)
        r == parse_expr(tokens, name, context)
    IN  CASE tokens = <<>> -> PErr(TemplateError("No {{endfor}}", head.pos, name))
          [] end -> POk([t |-> "for", pos |-> head.pos, vars |-> head.vars,
                         expr |-> head.expr, content |-> content], Tail(tokens))
          [] tokens # <<>> /\ ~end /\ r.exc.type # "none" -> r
          [] OTHER -> parse_for_loop(r.tokens, name, context, head,
                                     Append(content, r.node))

parse_for(tokens, name, context) ==
    LET pos == tokens[1].pos
        first0 == strip_colon(tokens[1].v)
        first == strip(Slice(first0, 3, Len(first0)))
        found == in_starts(first) # {}
        match == in_re(first)
        varsec == Slice(first, 0, match.start)
    IN  CASE ~found -> PErr(TemplateError("Bad for (no \"in\")", pos, name))
          [] found /\ "(" \in Range(varsec) ->
                PErr(TemplateError(
                    "You cannot have () in the variable section of a for loop",
                    pos, name))
          [] OTHER ->
                parse_for_loop(Tail(tokens), name, <<"for">> \o context,
                               [pos |-> pos,
                                vars |-> stripped_nonempty(split(varsec, ",")),
                                expr |-> Slice(first, match.end, Len(first))],
                               <<>>)

parse_default(tokens, name, context) ==
    LET pos == tokens[1].pos
        first == split_rest(tokens[1].v)
        parts == split1(first, "=")
    IN  IF Len(parts) = 1
        THEN PErr(TemplateError("Expression must be {{default var=value}}; no = found",
                                pos, name))
        ELSE IF "," \in Range(strip(parts[1]))
        THEN PErr(TemplateError("{{default x, y = ...}} is not supported", pos, name))
        ELSE IF ~var_re(strip(parts[1]))
        THEN PErr(TemplateError("Not a valid variable name for {{default}}", pos, name))
        ELSE POk([t |-> "default", pos |-> pos, var |-> strip(parts[1]),
                  expr |-> strip(parts[2])], Tail(tokens))

parse_inherit(tokens, name, context) ==
    POk([t |-> "inherit", pos |-> tokens[1].pos, expr |-> split_rest(tokens[1].v)],
        Tail(tokens))

\* the "while 1" loop of parse_def
parse_def_loop(tokens, name, context, head, content) ==
    LET end == is_directive(tokens, <<"e", "n", "d", "d", "e", "f">>)
        r == parse_expr(tokens, name, context)
    IN  CASE tokens = <<>> -> PErr(TemplateError("Missing {{enddef}}", head.pos, name))
          [] end -> POk([t |-> "def", pos |-> head.pos, func_name |-> head.func_name,
                         content |-> content], Tail(tokens))
          [] tokens # <<>> /\ ~end /\ r.exc.type # "none" -> r
          [] OTHER -> parse_def_loop(r.tokens, name, context, head,
                                     Append(content, r.node))

parse_def(tokens, name, context) ==
    parse_def_loop(Tail(tokens), name, Append(context, "def"),
                   [pos |-> tokens[1].pos, func_name |-> split_rest(tokens[1].v)],
                   <<>>)

\* The branch of parse_expr's if/elif chain that the stripped text of a
\* directive takes: the first whose test holds
expr_branch(expr) ==
    <<"continue", "break", "if", "elif", "else", "no expression", "end", "for",
      "default", "inherit", "def", "comment", "expr">>[
        FirstOf(<<expr = <<"c", "o", "n", "t", "i", "n", "u", "e">>,
                  expr = <<"b", "r", "e", "a", "k">>,
                  startswith(expr, <<"i", "f", " ">>),
                  startswith(expr, <<"e", "l", "i", "f", " ">>),
                  expr = <<"e", "l", "s", "e">>,
                  expr \in {<<"i", "f">>, <<"e", "l", "i", "f">>, <<"f", "o", "r">>},
                  expr \in {<<"e", "n", "d", "i", "f">>, <<"e", "n", "d", "f", "o", "r">>,
                            <<"e", "n", "d", "d", "e", "f">>},
                  startswith(expr, <<"f", "o", "r", " ">>),
                  startswith(expr, <<"d", "e", "f", "a", "u", "l", "t", " ">>),
                  startswith(expr, <<"i", "n", "h", "e", "r", "i", "t", " ">>),
                  startswith(expr, <<"d", "e", "f", " ">>),
                  startswith(expr, <<"#">>),
                  TRUE>>)]

parse_expr(tokens, name, context) ==
    LET branch == IF tokens[1].t = "str" THEN "str"
                  ELSE expr_branch(strip(tokens[1].v))
        pos == tokens[1].pos
        in_for == "for" \in Range(context)
    IN  CASE branch = "str" -> POk(tokens[1], Tail(tokens))
          [] branch \in {"continue", "break"} /\ ~in_for ->
                PErr(TemplateError("continue outside of for loop", pos, name))
          [] branch \in {"continue", "break"} /\ in_for ->
                POk([t |-> branch, pos |-> pos], Tail(tokens))
          [] branch = "if" -> parse_cond(tokens, name, context)
          [] branch = "elif" ->
                PErr(TemplateError("elif outside of an if block", pos, name))
          [] branch = "else" ->
                PErr(TemplateError("else outside of an if block", pos, name))
          [] branch = "no expression" ->
                PErr(TemplateError("with no expression", pos, name))
          [] branch = "end" -> PErr(TemplateError("Unexpected end", pos, name))
          [] branch = "for" -> parse_for(tokens, name, context)
          [] branch = "default" -> parse_default(tokens, name, context)
          [] branch = "inherit" -> parse_inherit(tokens, name, context)
          [] branch = "def" -> parse_def(tokens, name, context)
          [] branch = "comment" ->
                POk([t |-> "comment", pos |-> pos, text |-> tokens[1].v], Tail(tokens))
          [] OTHER -> POk([t |-> "expr", pos |-> pos, code |-> tokens[1].v],
                          Tail(tokens))

\* a turn of the loop that drops a literal token instead of appending it
parse_turn_skip_text(name, st) ==
    LET r == parse_expr(st.tokens, name, <<>>)
    IN  CASE st.tokens = <<>> -> st
          [] st.tokens # <<>> /\ r.exc.type # "none" -> [st EXCEPT !.exc = r.exc]
          [] st.tokens # <<>> /\ r.exc.type = "none" /\ r.node.t = "str" ->
                [st EXCEPT !.tokens = r.tokens]
          [] OTHER -> [tokens |-> r.tokens, result |-> Append(st.result, r.node),
                       exc |-> NoExc]

\* One turn of the "while tokens" loop of parse, st being [tokens, result,
\* exc]; the loop is over once no token is left
parse_turn(name, st) ==
    LET r == parse_expr(st.tokens, name, <<>>)
    IN  CASE st.tokens = <<>> -> st
          [] st.tokens # <<>> /\ r.exc.type # "none" -> [st EXCEPT !.exc = r.exc]
          [] OTHER -> [tokens |-> r.tokens, result |-> Append(st.result, r.node),
                       exc |-> NoExc]

\* n turns of the loop in order, one half of them after the other; a raise
\* ends the loop
RECURSIVE parse_loop(_, _, _)
parse_loop(name, n, st) ==
    CASE n = 0 \/ st.exc.type # "none" -> st
      [] n = 1 /\ st.exc.type = "none" -> parse_turn(name, st)
      [] OTHER -> parse_loop(name, n - n \div 2, parse_loop(name, n \div 2, st))

\* what parse returns after its loop ended in the state st
parse_return(st) ==
    IF st.exc.type # "none" THEN [exc |-> st.exc, parsed |-> <<>>]
    ELSE [exc |-> NoExc, parsed |-> st.result]

\* parse from the return of its call of lex on; each turn of its loop takes
\* at least one token
parse_tokens(name, l) ==
    IF l.exc.type # "none" THEN [exc |-> l.exc, parsed |-> <<>>]
    ELSE parse_return(parse_loop(name, Len(l.chunks),
                                 [tokens |-> l.chunks, result |-> <<>>,
                                  exc |-> NoExc]))

\* parse(s, name, line_offset): [exc, parsed]
parse(x, name, offset) == parse_tokens(name, lex(x, name, TRUE, offset))

(***************************************************************************)
(* Values of the render: what a namespace binds names to                   *)
(***************************************************************************)
IntV(n) == [t |-> "int", n |-> n]
BoolV(b) == [t |-> "bool", b |-> b]
NoneV == [t |-> "none"]
ListV(items) == [t |-> "list", items |-> items]      \* a list or a tuple
FuncV(f) == [t |-> "func", f |-> f]              \* a callable of the caller
Empty == [t |-> "empty"]

TemplateDef(template, func_name, body, ns, pos, bound_self) ==
    [t |-> "def", template |-> template, func_name |-> func_name, body |-> body,
     ns |-> ns, pos |-> pos, bound_self |-> bound_self]

\* a TemplateObject with the attributes set on it
TemplateObject(name, attrs) == [t |-> "obj", name |-> name, attrs |-> attrs]

TemplateObjectGetter(obj) == [t |-> "getter", obj |-> obj]

\* d[k] = v on a dict
Put(d, k, v) == [x \in DOMAIN d \cup {k} |-> IF x = k THEN v ELSE d[x]]

\* d.update(e)
Update(d, e) == [x \in DOMAIN d \cup DOMAIN e |-> IF x \in DOMAIN e THEN e[x] ELSE d[x]]

\* bool(v)
truthy(v) ==
    CASE v.t = "int" -> v.n # 0
      [] v.t = "bool" -> v.b
      [] v.t = "none" -> FALSE
      [] v.t = "empty" -> FALSE
      [] v.t = "str" -> v.v # <<>>
      [] v.t = "list" -> v.items # <<>>
      [] OTHER -> TRUE

DigitChar(d) ==
    CASE d = 0 -> "0" [] d = 1 -> "1" [] d = 2 -> "2" [] d = 3 -> "3" [] d = 4 -> "4"
      [] d = 5 -> "5" [] d = 6 -> "6" [] d = 7 -> "7" [] d = 8 -> "8" [] d = 9 -> "9"

DigitVal(c) ==
    CASE c = "0" -> 0 [] c = "1" -> 1 [] c = "2" -> 2 [] c = "3" -> 3 [] c = "4" -> 4
      [] c = "5" -> 5 [] c = "6" -> 6 [] c = "7" -> 7 [] c = "8" -> 8 [] c = "9" -> 9

\* str(n) for an int
RECURSIVE itoa(_)
itoa(n) ==
    IF n < 0 THEN <<"-">> \o itoa(0 - n)
    ELSE IF n < 10 THEN <<DigitChar(n)>>
    ELSE itoa(n \div 10) \o <<DigitChar(n % 10)>>

\* int(x) for a text of digits
RECURSIVE atoi(_)
atoi(x) ==
    IF Len(x) = 1 THEN DigitVal(x[1])
    ELSE 10 * atoi(SubSeq(x, 1, Len(x) - 1)) + DigitVal(x[Len(x)])

\* str(v) of a value that is no TemplateDef
RECURSIVE py_str(_)
RECURSIVE py_join(_)
py_join(items) ==
    IF items = <<>> THEN <<>>
    ELSE IF Len(items) = 1 THEN py_str(items[1])
    ELSE py_str(items[1]) \o <<",", " ">> \o py_join(Tail(items))

py_str(v) ==
    CASE v.t = "int" -> itoa(v.n)
      [] v.t = "bool" -> IF v.b THEN <<"T", "r", "u", "e">> ELSE <<"F", "a", "l", "s", "e">>
      [] v.t = "none" -> <<"N", "o", "n", "e">>
      [] v.t = "empty" -> <<>>
      [] v.t = "str" -> v.v
      [] v.t = "list" -> <<"[">> \o py_join(v.items) \o <<"]">>
      [] OTHER -> <<"<", "o", "b", "j", "e", "c", "t", ">">>

(***************************************************************************)
(* Exceptions of the render                                                *)
(***************************************************************************)
\* an exception with one message argument
Raise(type, text) == [type |-> type, args |-> <<[text |-> text, at |-> <<>>]>>]

\* raise _TemplateContinue() / _TemplateBreak(): no argument
Signal(type) == [type |-> type, args |-> <<>>]

\* Template._add_line_info(msg, pos): msg + " at line L column C in file NAME"
_add_line_info(self, msg, pos) ==
    [msg EXCEPT !.at = Append(@, [line |-> pos[1], column |-> pos[2],
                                  file |-> self.name])]

(***************************************************************************)
(* The interpreter.  The state a render threads through its calls is       *)
(*   st = [heap, out, defs, evals, exc]                                    *)
(* heap: the namespace dicts, a dict being named by its index (TemplateDef *)
(* keeps a reference to the dict it was defined in); out: the text         *)
(* appended so far; defs: the defs collector; evals: the expressions       *)
(* handed to _eval so far, in order; exc: the exception being raised.      *)
(***************************************************************************)
\* a caller that takes no raise for one
Failed_never(st) == FALSE

\* an exception left the calls that ran on st
Failed(st) == st.exc.type # "none"

\* the state before anything ran
NoState == [heap |-> <<>>, out |-> <<>>, defs |-> <<>>, evals |-> <<>>, exc |-> NoExc]

Throw(st, e) == [st EXCEPT !.exc = e]

ER(st, v) == [st |-> st, v |-> v]

\* ns[k] = v for the dict named ns
SetVar(st, ns, k, v) == [st EXCEPT !.heap[ns] = Put(@, k, v)]

\* Template.default_namespace, the globals of eval
default_namespace ==
    \* 'start_braces'
    [k \in {<<"s", "t", "a", "r", "t", "_", "b", "r", "a", "c", "e", "s">>, <<"e", "n", "d", "_", "b", "r", "a", "c", "e", "s">>, <<"l", "o", "o", "p", "e", "r">>} |->
        \* 'start_braces'
        IF k = <<"s", "t", "a", "r", "t", "_", "b", "r", "a", "c", "e", "s">> THEN Str(delimeters[1])
        ELSE IF k = <<"e", "n", "d", "_", "b", "r", "a", "c", "e", "s">> THEN Str(delimeters[2])
        ELSE FuncV("looper")]

\* the builtins eval falls back to
builtins ==
    [k \in {<<"r", "e", "p", "r">>} |-> FuncV("repr")]

\* words eval does not read as names
py_keywords == {<<"n", "o", "t">>, <<"i", "n">>, <<"i", "f">>, <<"e", "l", "s", "e">>, <<"f", "o", "r">>, <<"d", "e", "f">>, <<"a", "n", "d">>, <<"o", "r">>}

\* calling one of the caller's one-argument callables: [exc, v]
apply_func(f, v) ==
    CASE f = "inc" /\ v.t = "int" -> [exc |-> NoExc, v |-> IntV(v.n + 1)]
      [] f = "dbl" /\ v.t = "int" -> [exc |-> NoExc, v |-> IntV(2 * v.n)]
      [] f = "repr" /\ v.t = "int" -> [exc |-> NoExc, v |-> Str(itoa(v.n))]
      [] f = "repr" /\ v.t = "str" ->
            [exc |-> NoExc, v |-> Str(<<"'">> \o v.v \o <<"'">>)]
      [] OTHER -> [exc |-> Raise("TypeError", "unsupported operand"), v |-> NoneV]

\* the elements iterating v yields: [exc, items]
py_iter(v) ==
    CASE v.t = "list" -> [exc |-> NoExc, items |-> v.items]
      [] v.t = "str" -> [exc |-> NoExc, items |-> [k \in 1..Len(v.v) |-> Str(<<v.v[k]>>)]]
      [] v.t = "empty" -> [exc |-> NoExc, items |-> <<>>]
      [] OTHER -> [exc |-> Raise("TypeError", "object is not iterable"), items |-> <<>>]

\* len(v): [exc, n]
py_len(v) ==
    CASE v.t = "list" -> [exc |-> NoExc, n |-> Len(v.items)]
      [] v.t = "str" -> [exc |-> NoExc, n |-> Len(v.v)]
      [] OTHER -> [exc |-> Raise("TypeError", "object has no len()"), n |-> 0]

\* getattr(o, attr): [exc, v]
py_getattr(o, attr) ==
    CASE o.t = "obj" /\ attr \in DOMAIN o.attrs -> [exc |-> NoExc, v |-> o.attrs[attr]]
      [] o.t = "obj" /\ attr \notin DOMAIN o.attrs /\ attr = <<"g", "e", "t">> ->
            [exc |-> NoExc, v |-> TemplateObjectGetter(o)]
      [] o.t = "getter" ->
            [exc |-> NoExc,
             v |-> IF attr \in DOMAIN o.obj.attrs THEN o.obj.attrs[attr]
                   ELSE IF attr = <<"g", "e", "t">> THEN o ELSE Empty]
      [] OTHER -> [exc |-> Raise("AttributeError", "object has no attribute"),
                   v |-> NoneV]

\* a + b: [exc, v]
py_add(a, b) ==
    CASE a.t = "int" /\ b.t = "int" -> [exc |-> NoExc, v |-> IntV(a.n + b.n)]
      [] a.t = "str" /\ b.t = "str" -> [exc |-> NoExc, v |-> Str(a.v \o b.v)]
      [] OTHER -> [exc |-> Raise("TypeError", "unsupported operand"), v |-> NoneV]

LastIndexOf(x, c) ==
    LET hits == {k \in 1..Len(x) : x[k] = c}
    IN  CHOOSE k \in hits : \A j \in hits : j <= k

\* a call of one of the interpreter's methods, which call each other
RECURSIVE dispatch(_, _)

\* the methods that loop, from one turn of their loop to the next
RECURSIVE py_eval(_, _, _, _)
RECURSIVE apply_filters(_, _, _, _, _, _)
RECURSIVE _interpret_for(_, _, _, _, _, _, _)
RECURSIVE _interpret_if(_, _, _, _)
RECURSIVE _interpret_codes(_, _, _, _)

\* a call whose body writes to the defs collector of the caller
TemplateDef_call_caller_defs(d, st) ==
    LET n == Len(st.heap) + 1
        copy == IF d.bound_self.t # "none"
                THEN Put(st.heap[d.ns], <<"s", "e", "l", "f">>, d.bound_self)
                ELSE st.heap[d.ns]
        st1 == [heap |-> Append(st.heap, copy), out |-> <<>>, defs |-> st.defs,
                evals |-> st.evals, exc |-> NoExc]
        st2 == _interpret_codes(d.template, d.body, n, st1)
    IN  [st |-> [heap |-> SubSeq(st2.heap, 1, n - 1), out |-> st.out,
                 defs |-> st2.defs, evals |-> st2.evals, exc |-> st2.exc],
         v |-> Str(st2.out)]

\* a call that runs the body in the defining namespace itself, not in a copy
TemplateDef_call_shared(d, st) ==
    LET heap1 == IF d.bound_self.t # "none"
                 THEN [st.heap EXCEPT ![d.ns] = Put(@, <<"s", "e", "l", "f">>, d.bound_self)]
                 ELSE st.heap
        st1 == [heap |-> heap1, out |-> <<>>, defs |-> <<>>,
                evals |-> st.evals, exc |-> NoExc]
        st2 == _interpret_codes(d.template, d.body, d.ns, st1)
    IN  [st |-> [heap |-> st2.heap, out |-> st.out,
                 defs |-> st.defs, evals |-> st2.evals, exc |-> st2.exc],
         v |-> Str(st2.out)]

\* TemplateDef.__call__: ER(st, the text the body rendered)
TemplateDef_call(d, st) ==
    LET n == Len(st.heap) + 1
        copy == IF d.bound_self.t # "none"
                THEN Put(st.heap[d.ns], <<"s", "e", "l", "f">>, d.bound_self)
                ELSE st.heap[d.ns]
        st1 == [heap |-> Append(st.heap, copy), out |-> <<>>, defs |-> <<>>,
                evals |-> st.evals, exc |-> NoExc]
        st2 == _interpret_codes(d.template, d.body, n, st1)
    IN  [st |-> [heap |-> SubSeq(st2.heap, 1, n - 1), out |-> st.out,
                 defs |-> st.defs, evals |-> st2.evals, exc |-> st2.exc],
         v |-> Str(st2.out)]

\* f(*args) for a value f
py_call(f, args, st) ==
    CASE f.t = "def" -> TemplateDef_call(f, st)
      [] f.t = "empty" -> ER(st, Empty)
      [] f.t = "func" /\ Len(args) = 1 ->
            LET r == apply_func(f.f, args[1]) IN ER(Throw(st, r.exc), r.v)
      [] OTHER -> ER(Throw(st, Raise("TypeError", "object is not callable")), NoneV)

\* the form eval reads the stripped text code as: the first that fits of an
\* empty text or a keyword, an int literal, a string literal, not E, A+B, E(),
\* E.attr, something that is no name, None, True, False, a name
expr_form(code) ==
    <<"invalid", "int", "str", "not", "add", "call", "attr", "invalid", "None",
      "True", "False", "name">>[FirstOf(
        <<code = <<>> \/ code \in py_keywords,
          \A k \in 1..Len(code) : code[k] \in Digits,
          /\ Len(code) >= 2 /\ code[1] = "\"" /\ code[Len(code)] = "\""
          /\ \A k \in 2..(Len(code) - 1) : code[k] # "\"",
          startswith(code, <<"n", "o", "t", " ">>),
          "+" \in Range(code),
          endswith(code, <<"(", ")">>),
          "." \in Range(code),
          ~var_re(code),
          code = <<"N", "o", "n", "e">>,
          code = <<"T", "r", "u", "e">>,
          code = <<"F", "a", "l", "s", "e">>,
          TRUE>>)]

\* eval of a name: the locals ns, then the globals, then the builtins
py_name(code, ns, st) ==
    LET scopes == <<st.heap[ns], default_namespace, builtins>>
        found == <<code \in DOMAIN scopes[1], code \in DOMAIN scopes[2],
                   code \in DOMAIN scopes[3], TRUE>>
    IN  IF FirstOf(found) = 4
        THEN ER(Throw(st, Raise("NameError", "name is not defined")), NoneV)
        ELSE ER(st, scopes[FirstOf(found)][code])

\* eval(code, self.default_namespace, ns) for the expressions the model reads:
\* int and string literals, names, not E, A+B, E(), E.attr
py_eval(self, code0, ns, st) ==
    LET code == strip(code0)
        n == Len(code)
        form == expr_form(code)
        \* where the last operator of A+B and of E.attr stands
        k == LastIndexOf(code, IF form = "add" THEN "+" ELSE ".")
        \* the operand that is evaluated first
        a == py_eval(self,
                     CASE form = "not" -> SubSeq(code, 5, n)
                       [] form = "call" -> SubSeq(code, 1, n - 2)
                       [] form \in {"add", "attr"} -> SubSeq(code, 1, k - 1),
                     ns, st)
        b == py_eval(self, SubSeq(code, k + 1, n), ns, a.st)
        sum == py_add(a.v, b.v)
        attr == py_getattr(a.v, SubSeq(code, k + 1, n))
    IN  CASE form = "invalid" ->
                ER(Throw(st, Raise("SyntaxError", "invalid syntax")), NoneV)
          [] form = "int" -> ER(st, IntV(atoi(code)))
          [] form = "str" -> ER(st, Str(SubSeq(code, 2, n - 1)))
          [] form = "None" -> ER(st, NoneV)
          [] form = "True" -> ER(st, BoolV(TRUE))
          [] form = "False" -> ER(st, BoolV(FALSE))
          [] form = "name" -> py_name(code, ns, st)
          [] form \in {"not", "add", "call", "attr"} /\ a.st.exc # NoExc -> a
          [] form = "not" /\ a.st.exc = NoExc -> ER(a.st, BoolV(~truthy(a.v)))
          [] form = "call" /\ a.st.exc = NoExc -> py_call(a.v, <<>>, a.st)
          [] form = "add" /\ a.st.exc = NoExc /\ b.st.exc # NoExc -> b
          [] form = "add" /\ a.st.exc = NoExc /\ b.st.exc = NoExc ->
                ER(Throw(b.st, sum.exc), sum.v)
          [] form = "attr" /\ a.st.exc = NoExc /\ ~var_re(SubSeq(code, k + 1, n)) ->
                ER(Throw(a.st, Raise("SyntaxError", "invalid syntax")), NoneV)
          [] form = "attr" /\ a.st.exc = NoExc /\ var_re(SubSeq(code, k + 1, n)) ->
                ER(Throw(a.st, attr.exc), attr.v)

\* Template._eval: eval, and on any exception the line info added to args[0]
_eval(self, code, ns, pos, st) ==
    LET st1 == [st EXCEPT !.evals = Append(@, [code |-> code, pos |-> pos])]
        r == py_eval(self, code, ns, st1)
        e == r.st.exc
        arg0 == IF e.args # <<>> THEN e.args[1] ELSE [text |-> "", at |-> <<>>]
    IN  IF r.st.exc = NoExc THEN r
        ELSE ER(Throw(r.st, [e EXCEPT !.args = <<_add_line_info(self, arg0, pos)>>]),
                NoneV)

\* Template._repr: ER(st, the text of value)
_repr(self, value, pos, st) ==
    LET r == TemplateDef_call(value, st)
        e == r.st.exc
    IN  CASE value.t = "none" -> ER(st, <<>>)
          [] value.t = "def" /\ r.st.exc = NoExc -> ER(r.st, r.v.v)
          [] value.t = "def" /\ r.st.exc # NoExc /\ e.args = <<>> ->
                ER(Throw(r.st, Raise("IndexError", "tuple index out of range")), <<>>)
          [] value.t = "def" /\ r.st.exc # NoExc /\ e.args # <<>> ->
                ER(Throw(r.st, [e EXCEPT !.args =
                                   <<_add_line_info(self, e.args[1], pos)>>]), <<>>)
          [] OTHER -> ER(st, py_str(value))

\* the filters applied from the last one to the first
apply_filters_right_first(self, parts, base, ns, pos, st) ==
    LET func == dispatch("_eval", <<self, parts[Len(parts)], ns, pos, st>>)
        r == py_call(func.v, <<base>>, func.st)
    IN  CASE parts = <<>> -> ER(st, base)
          [] parts # <<>> /\ func.st.exc # NoExc -> func
          [] parts # <<>> /\ func.st.exc = NoExc /\ r.st.exc # NoExc -> r
          [] OTHER -> apply_filters(self, SubSeq(parts, 1, Len(parts) - 1), r.v, ns,
                                    pos, r.st)

\* "for part in parts[1:]: func = self._eval(part, ns, pos); base = func(base)"
apply_filters(self, parts, base, ns, pos, st) ==
    LET func == dispatch("_eval", <<self, Head(parts), ns, pos, st>>)
        r == py_call(func.v, <<base>>, func.st)
    IN  CASE parts = <<>> -> ER(st, base)
          [] parts # <<>> /\ func.st.exc # NoExc -> func
          [] parts # <<>> /\ func.st.exc = NoExc /\ r.st.exc # NoExc -> r
          [] OTHER -> apply_filters(self, Tail(parts), r.v, ns, pos, r.st)

\* the 'expr' branch of _interpret_code
interpret_expr(self, code, ns, st) ==
    LET parts == split(code.code, "|")
        b0 == dispatch("_eval", <<self, parts[1], ns, code.pos, st>>)
        b1 == IF Len(parts) = 1 /\ truthy(self.default_filter)
              THEN py_call(self.default_filter, <<b0.v>>, b0.st)
              ELSE b0
        b2 == apply_filters(self, Tail(parts), b1.v, ns, code.pos, b1.st)
        r == _repr(self, b2.v, code.pos, b2.st)
    IN  CASE b0.st.exc # NoExc -> b0.st
          [] b0.st.exc = NoExc /\ b1.st.exc # NoExc -> b1.st
          [] b0.st.exc = NoExc /\ b1.st.exc = NoExc /\ b2.st.exc # NoExc -> b2.st
          [] b0.st.exc = NoExc /\ b1.st.exc = NoExc /\ b2.st.exc = NoExc /\ r.st.exc # NoExc -> r.st
          [] OTHER -> [r.st EXCEPT !.out = @ \o r.v]

\* the 'default' branch of _interpret_code with its "if var not in ns" dropped
interpret_default_always(self, code, ns, st) ==
    LET result == dispatch("_eval", <<self, code.expr, ns, code.pos, st>>)
    IN  IF result.st.exc # NoExc THEN result.st
        ELSE SetVar(result.st, ns, code.var, result.v)

\* the 'default' branch of _interpret_code
interpret_default(self, code, ns, st) ==
    IF code.var \notin DOMAIN st.heap[ns]
    THEN LET result == dispatch("_eval", <<self, code.expr, ns, code.pos, st>>)
         IN  IF result.st.exc # NoExc THEN result.st
             ELSE SetVar(result.st, ns, code.var, result.v)
    ELSE st

\* bind_item binding the first loop variable before it checks the count
bind_item_early(vars0, item, ns, st) ==
    IF Len(vars0) = 1 THEN SetVar(st, ns, vars0[1], item)
    ELSE LET l == py_len(item)
             parts == py_iter(item).items
             st1 == IF parts # <<>> THEN SetVar(st, ns, vars0[1], parts[1]) ELSE st
         IN  IF l.exc.type # "none" THEN Throw(st, l.exc)
             ELSE IF Len(vars0) # l.n
             THEN Throw(st1, [type |-> "ValueError",
                              args |-> <<[text |-> "Need items to unpack",
                                          need |-> Len(vars0), got |-> l.n,
                                          at |-> <<>>]>>])
             ELSE [st EXCEPT !.heap[ns] =
                      Update(@, [v \in Range(vars0) |->
                                   parts[CHOOSE k \in 1..Len(vars0) :
                                       /\ vars0[k] = v
                                       /\ \A j \in (k + 1)..Len(vars0) : vars0[j] # v]])]

\* binding the loop variables to one element: the ns[...] = ... of
\* _interpret_for, or the exception of its count check
bind_item(vars0, item, ns, st) ==
    IF Len(vars0) = 1 THEN SetVar(st, ns, vars0[1], item)
    ELSE LET l == py_len(item)
             parts == py_iter(item).items
         IN  IF l.exc.type # "none" THEN Throw(st, l.exc)
             ELSE IF Len(vars0) # l.n
             THEN Throw(st, [type |-> "ValueError",
                             args |-> <<[text |-> "Need items to unpack",
                                         need |-> Len(vars0), got |-> l.n,
                                         at |-> <<>>]>>])
             ELSE [st EXCEPT !.heap[ns] =
                      Update(@, [v \in Range(vars0) |->
                                   parts[CHOOSE k \in 1..Len(vars0) :
                                       /\ vars0[k] = v
                                       /\ \A j \in (k + 1)..Len(vars0) : vars0[j] # v]])]

\* _interpret_for taking a break for a continue
_interpret_for_no_break(self, vars0, items, k, content, ns, st) ==
    LET more == k <= Len(items)
        st1 == bind_item(vars0, items[k], ns, st)
        bound == more /\ st1.exc = NoExc
        st2 == _interpret_codes(self, content, ns, st1)
    IN  CASE ~more -> st
          [] more /\ st1.exc # NoExc -> st1
          [] bound /\ st2.exc.type \in {"none", "_TemplateContinue", "_TemplateBreak"} ->
                _interpret_for(self, vars0, items, k + 1, content, ns,
                               Throw(st2, NoExc))
          [] OTHER -> st2

\* Template._interpret_for from the k-th element of items on
_interpret_for(self, vars0, items, k, content, ns, st) ==
    LET more == k <= Len(items)
        st1 == bind_item(vars0, items[k], ns, st)
        bound == more /\ st1.exc = NoExc
        st2 == _interpret_codes(self, content, ns, st1)
    IN  CASE ~more -> st
          [] more /\ st1.exc # NoExc -> st1
          [] bound /\ st2.exc.type \in {"none", "_TemplateContinue"} ->
                _interpret_for(self, vars0, items, k + 1, content, ns,
                               Throw(st2, NoExc))
          [] bound /\ st2.exc.type = "_TemplateBreak" -> Throw(st2, NoExc)
          [] OTHER -> st2

\* _interpret_if going on to the later branches after a branch was rendered
_interpret_if_fallthrough(self, parts, ns, st) ==
    LET part == Head(parts)
        result == IF part.t = "else" THEN ER(st, BoolV(TRUE))
                  ELSE dispatch("_eval", <<self, part.expr, ns, part.pos, st>>)
        rendered == _interpret_codes(self, part.content, ns, result.st)
    IN  CASE parts = <<>> -> st
          [] parts # <<>> /\ result.st.exc # NoExc -> result.st
          [] parts # <<>> /\ result.st.exc = NoExc /\ truthy(result.v) ->
                _interpret_if(self, Tail(parts), ns, rendered)
          [] OTHER -> _interpret_if(self, Tail(parts), ns, result.st)

\* Template._interpret_if on the branches not yet tried
_interpret_if(self, parts, ns, st) ==
    LET part == Head(parts)
        result == IF part.t = "else" THEN ER(st, BoolV(TRUE))
                  ELSE dispatch("_eval", <<self, part.expr, ns, part.pos, st>>)
    IN  CASE parts = <<>> -> st
          [] parts # <<>> /\ result.st.exc # NoExc -> result.st
          [] parts # <<>> /\ result.st.exc = NoExc /\ truthy(result.v) ->
                _interpret_codes(self, part.content, ns, result.st)
          [] OTHER -> _interpret_if(self, Tail(parts), ns, result.st)

\* Template._interpret_code
_interpret_code(self, code, ns, st) ==
    CASE code.t = "continue" -> Throw(st, Signal("_TemplateContinue"))
      [] code.t = "break" -> Throw(st, Signal("_TemplateBreak"))
      [] code.t = "for" ->
            LET expr == dispatch("_eval", <<self, code.expr, ns, code.pos, st>>)
                it == py_iter(expr.v)
            IN  CASE expr.st.exc # NoExc -> expr.st
                  [] expr.st.exc = NoExc /\ it.exc.type # "none" -> Throw(expr.st, it.exc)
                  [] OTHER -> _interpret_for(self, code.vars, it.items, 1, code.content,
                                             ns, expr.st)
      [] code.t = "cond" -> _interpret_if(self, code.parts, ns, st)
      [] code.t = "expr" -> interpret_expr(self, code, ns, st)
      [] code.t = "default" -> interpret_default(self, code, ns, st)
      [] code.t = "inherit" ->
            LET value == dispatch("_eval", <<self, code.expr, ns, code.pos, st>>)
            IN  IF value.st.exc # NoExc THEN value.st
                ELSE [value.st EXCEPT !.defs = Put(@, <<"_", "_", "i", "n", "h", "e", "r", "i", "t", "_", "_">>, value.v)]
      [] code.t = "def" ->
            LET d == TemplateDef(self, code.func_name, code.content, ns, code.pos,
                                 NoneV)
            IN  [SetVar(st, ns, code.func_name, d) EXCEPT
                    !.defs = Put(@, code.func_name, d)]
      [] code.t = "comment" -> st

\* Template._interpret_codes
_interpret_codes(self, codes, ns, st) ==
    LET st1 == IF Head(codes).t = "str" THEN [st EXCEPT !.out = @ \o Head(codes).v]
               ELSE dispatch("_interpret_code", <<self, Head(codes), ns, st>>)
    IN  CASE codes = <<>> -> st
          [] codes # <<>> /\ st1.exc # NoExc -> st1
          [] OTHER -> _interpret_codes(self, Tail(codes), ns, st1)

\* the method f applied to the arguments a
dispatch(f, a) ==
    CASE f = "_interpret_code" -> _interpret_code(a[1], a[2], a[3], a[4])
      [] f = "_eval" -> _eval(a[1], a[2], a[3], a[4], a[5])

(***************************************************************************)
(* Templates.  The library is what the caller's get_template loads from;   *)
(* an entry holds the arguments of the Template constructor and the        *)
(* default_filter of the class.                                            *)
(***************************************************************************)
Entry(content, namespace, get_template, default_inherit, default_filter) ==
    [content |-> content, namespace |-> namespace, get_template |-> get_template,
     default_inherit |-> default_inherit, default_filter |-> default_filter]

Plain(content) == Entry(content, <<>>, TRUE, NoneV, NoneV)

Library ==
    [name \in {<<"i", "f">>, <<"e", "l", "i", "f">>, <<"n", "o", "e", "l", "s", "e">>, <<"b", "r", "e", "a", "k">>, <<"c", "o", "n", "t", "i", "n", "u", "e">>, <<"n", "e", "s", "t", "e", "d">>,
               <<"d", "e", "f", "l", "o", "o", "p">>, <<"d", "e", "f", "b", "r", "e", "a", "k">>, <<"d", "e", "f", "c", "o", "n", "t">>, <<"d", "e", "f", "r", "e", "p", "r">>, <<"u", "n", "p", "a", "c", "k">>,
               <<"d", "e", "f", "a", "u", "l", "t">>, <<"d", "e", "f", "a", "u", "l", "t", "u">>, <<"p", "i", "p", "e">>, <<"p", "i", "p", "e", "f">>, <<"b", "a", "s", "e">>, <<"b", "a", "s", "e", "n", "s">>, <<"p", "l", "a", "i", "n">>,
               <<"m", "i", "d">>, <<"c", "h", "i", "l", "d">>, <<"c", "h", "i", "l", "d", "d">>, <<"c", "h", "i", "l", "d", "i">>, <<"b", "o", "d", "y", "d", "e", "f">>,
               <<"n", "o", "l", "o", "a", "d", "e", "r">>, <<"b", "r", "o", "k", "e", "n">>, <<"n", "o", "d", "e", "f">>, <<"d", "e", "f", "c", "o", "p", "y">>, <<"l", "a", "s", "t", "i", "n", "h">>, <<"l", "o", "o", "p">>, <<"p", "i", "n", "g">>, <<"p", "o", "n", "g">>} |->
      \* '{{if x}}{{y}}{{else}}{{z}}{{endif}}'
      CASE name = <<"i", "f">> -> Plain(<<"{", "{", "i", "f", " ", "x", "}", "}", "{", "{", "y", "}", "}", "{", "{", "e", "l", "s", "e", "}", "}", "{", "{", "z", "}", "}", "{", "{", "e", "n", "d", "i", "f", "}", "}">>)
        [] name = <<"e", "l", "i", "f">> ->
             \* '{{if a}}A{{elif b}}B{{elif c}}C{{else}}D{{endif}}'
             Plain(<<"{", "{", "i", "f", " ", "a", "}", "}", "A", "{", "{", "e", "l", "i", "f", " ", "b", "}", "}", "B", "{", "{", "e", "l", "i", "f", " ", "c", "}", "}", "C", "{", "{", "e", "l", "s", "e", "}", "}", "D", "{", "{", "e", "n", "d", "i", "f", "}", "}">>)
        \* 'x{{if a}}A{{elif b}}B{{endif}}y'
        [] name = <<"n", "o", "e", "l", "s", "e">> -> Plain(<<"x", "{", "{", "i", "f", " ", "a", "}", "}", "A", "{", "{", "e", "l", "i", "f", " ", "b", "}", "}", "B", "{", "{", "e", "n", "d", "i", "f", "}", "}", "y">>)
        [] name = <<"b", "r", "e", "a", "k">> ->
             \* '{{for i in x}}<{{if not i}}{{break}}{{endif}}{{i}}>{{endfor}}'
             Plain(<<"{", "{", "f", "o", "r", " ", "i", " ", "i", "n", " ", "x", "}", "}", "<", "{", "{", "i", "f", " ", "n", "o", "t", " ", "i", "}", "}", "{", "{", "b", "r", "e", "a", "k", "}", "}", "{", "{", "e", "n", "d", "i", "f", "}", "}", "{", "{", "i", "}", "}", ">", "{", "{", "e", "n", "d", "f", "o", "r", "}", "}">>)
        [] name = <<"c", "o", "n", "t", "i", "n", "u", "e">> ->
             \* '{{for i in x}}<{{if not i}}{{continue}}{{endif}}{{i}}>{{endfor}}'
             Plain(<<"{", "{", "f", "o", "r", " ", "i", " ", "i", "n", " ", "x", "}", "}", "<", "{", "{", "i", "f", " ", "n", "o", "t", " ", "i", "}", "}", "{", "{", "c", "o", "n", "t", "i", "n", "u", "e", "}", "}", "{", "{", "e", "n", "d", "i", "f", "}", "}", "{", "{", "i", "}", "}", ">", "{", "{", "e", "n", "d", "f", "o", "r", "}", "}">>)
        [] name = <<"n", "e", "s", "t", "e", "d">> ->
             \* '{{for i in x}}({{for j in y}}{{if not j}}{{break}}{{endif}}{{if not i}}{{continue}}{{endif}}{{j}}{{endfor}}){{endfor}}'
             Plain(<<"{", "{", "f", "o", "r", " ", "i", " ", "i", "n", " ", "x", "}", "}", "(", "{", "{", "f", "o", "r", " ", "j", " ", "i", "n", " ", "y", "}", "}", "{", "{", "i", "f", " ", "n", "o", "t", " ", "j", "}", "}", "{", "{", "b", "r", "e", "a", "k", "}", "}", "{", "{", "e", "n", "d", "i", "f", "}", "}", "{", "{", "i", "f", " ", "n", "o", "t", " ", "i", "}", "}", "{", "{", "c", "o", "n", "t", "i", "n", "u", "e", "}", "}", "{", "{", "e", "n", "d", "i", "f", "}", "}", "{", "{", "j", "}", "}", "{", "{", "e", "n", "d", "f", "o", "r", "}", "}", ")", "{", "{", "e", "n", "d", "f", "o", "r", "}", "}">>)
        [] name = <<"d", "e", "f", "l", "o", "o", "p">> ->
             \* '{{def f}}{{for j in y}}{{if not j}}{{break}}{{endif}}{{j}}{{endfor}}{{enddef}}{{for i in x}}{{f()}}{{i}};{{endfor}}'
             Plain(<<"{", "{", "d", "e", "f", " ", "f", "}", "}", "{", "{", "f", "o", "r", " ", "j", " ", "i", "n", " ", "y", "}", "}", "{", "{", "i", "f", " ", "n", "o", "t", " ", "j", "}", "}", "{", "{", "b", "r", "e", "a", "k", "}", "}", "{", "{", "e", "n", "d", "i", "f", "}", "}", "{", "{", "j", "}", "}", "{", "{", "e", "n", "d", "f", "o", "r", "}", "}", "{", "{", "e", "n", "d", "d", "e", "f", "}", "}", "{", "{", "f", "o", "r", " ", "i", " ", "i", "n", " ", "x", "}", "}", "{", "{", "f", "(", ")", "}", "}", "{", "{", "i", "}", "}", ";", "{", "{", "e", "n", "d", "f", "o", "r", "}", "}">>)
        [] name = <<"d", "e", "f", "b", "r", "e", "a", "k">> ->
             \* '{{for i in x}}{{def f}}{{break}}{{enddef}}{{endfor}}{{f()}}'
             Plain(<<"{", "{", "f", "o", "r", " ", "i", " ", "i", "n", " ", "x", "}", "}", "{", "{", "d", "e", "f", " ", "f", "}", "}", "{", "{", "b", "r", "e", "a", "k", "}", "}", "{", "{", "e", "n", "d", "d", "e", "f", "}", "}", "{", "{", "e", "n", "d", "f", "o", "r", "}", "}", "{", "{", "f", "(", ")", "}", "}">>)
        [] name = <<"d", "e", "f", "c", "o", "n", "t">> ->
             \* '{{for i in x}}{{def f}}a{{continue}}b{{enddef}}{{i}}{{f()}}c{{endfor}}'
             Plain(<<"{", "{", "f", "o", "r", " ", "i", " ", "i", "n", " ", "x", "}", "}", "{", "{", "d", "e", "f", " ", "f", "}", "}", "a", "{", "{", "c", "o", "n", "t", "i", "n", "u", "e", "}", "}", "b", "{", "{", "e", "n", "d", "d", "e", "f", "}", "}", "{", "{", "i", "}", "}", "{", "{", "f", "(", ")", "}", "}", "c", "{", "{", "e", "n", "d", "f", "o", "r", "}", "}">>)
        [] name = <<"d", "e", "f", "r", "e", "p", "r">> ->
             \* '{{for i in x}}{{def f}}{{break}}{{enddef}}{{endfor}}{{f}}'
             Plain(<<"{", "{", "f", "o", "r", " ", "i", " ", "i", "n", " ", "x", "}", "}", "{", "{", "d", "e", "f", " ", "f", "}", "}", "{", "{", "b", "r", "e", "a", "k", "}", "}", "{", "{", "e", "n", "d", "d", "e", "f", "}", "}", "{", "{", "e", "n", "d", "f", "o", "r", "}", "}", "{", "{", "f", "}", "}">>)
        \* '{{for a, b in z}}{{a}}={{b}},{{endfor}}'
        [] name = <<"u", "n", "p", "a", "c", "k">> -> Plain(<<"{", "{", "f", "o", "r", " ", "a", ",", " ", "b", " ", "i", "n", " ", "z", "}", "}", "{", "{", "a", "}", "}", "=", "{", "{", "b", "}", "}", ",", "{", "{", "e", "n", "d", "f", "o", "r", "}", "}">>)
        \* '{{default x=1}}{{x}}'
        [] name = <<"d", "e", "f", "a", "u", "l", "t">> -> Plain(<<"{", "{", "d", "e", "f", "a", "u", "l", "t", " ", "x", "=", "1", "}", "}", "{", "{", "x", "}", "}">>)
        \* '{{default x=u}}{{x}}'
        [] name = <<"d", "e", "f", "a", "u", "l", "t", "u">> -> Plain(<<"{", "{", "d", "e", "f", "a", "u", "l", "t", " ", "x", "=", "u", "}", "}", "{", "{", "x", "}", "}">>)
        \* '{{n|inc|dbl}};{{n|dbl|inc}};{{n|dbl}};{{n}}'
        [] name = <<"p", "i", "p", "e">> -> Plain(<<"{", "{", "n", "|", "i", "n", "c", "|", "d", "b", "l", "}", "}", ";", "{", "{", "n", "|", "d", "b", "l", "|", "i", "n", "c", "}", "}", ";", "{", "{", "n", "|", "d", "b", "l", "}", "}", ";", "{", "{", "n", "}", "}">>)
        [] name = <<"p", "i", "p", "e", "f">> ->
             \* '{{n|inc|dbl}};{{n|dbl|inc}};{{n|dbl}};{{n}}'
             Entry(<<"{", "{", "n", "|", "i", "n", "c", "|", "d", "b", "l", "}", "}", ";", "{", "{", "n", "|", "d", "b", "l", "|", "i", "n", "c", "}", "}", ";", "{", "{", "n", "|", "d", "b", "l", "}", "}", ";", "{", "{", "n", "}", "}">>, <<>>, TRUE, NoneV,
                   FuncV("inc"))
        \* '[{{self.block}}|{{self.body}}|{{m}}]'
        [] name = <<"b", "a", "s", "e">> -> Plain(<<"[", "{", "{", "s", "e", "l", "f", ".", "b", "l", "o", "c", "k", "}", "}", "|", "{", "{", "s", "e", "l", "f", ".", "b", "o", "d", "y", "}", "}", "|", "{", "{", "m", "}", "}", "]">>)
        [] name = <<"b", "a", "s", "e", "n", "s">> ->
             \* '[{{self.body}}|{{m}}|{{__template_name__}}]'
             Entry(<<"[", "{", "{", "s", "e", "l", "f", ".", "b", "o", "d", "y", "}", "}", "|", "{", "{", "m", "}", "}", "|", "{", "{", "_", "_", "t", "e", "m", "p", "l", "a", "t", "e", "_", "n", "a", "m", "e", "_", "_", "}", "}", "]">>,
                   [k \in {<<"m">>} |-> IntV(9)], TRUE, NoneV, NoneV)
        \* '<{{self.get.block}}{{self.get.other}}>'
        [] name = <<"p", "l", "a", "i", "n">> -> Plain(<<"<", "{", "{", "s", "e", "l", "f", ".", "g", "e", "t", ".", "b", "l", "o", "c", "k", "}", "}", "{", "{", "s", "e", "l", "f", ".", "g", "e", "t", ".", "o", "t", "h", "e", "r", "}", "}", ">">>)
        [] name = <<"m", "i", "d">> ->
             \* '{{inherit \"base\"}}({{self.body}}){{def block}}M{{enddef}}'
             Plain(<<"{", "{", "i", "n", "h", "e", "r", "i", "t", " ", "\"", "b", "a", "s", "e", "\"", "}", "}", "(", "{", "{", "s", "e", "l", "f", ".", "b", "o", "d", "y", "}", "}", ")", "{", "{", "d", "e", "f", " ", "b", "l", "o", "c", "k", "}", "}", "M", "{", "{", "e", "n", "d", "d", "e", "f", "}", "}">>)
        \* '{{inherit p}}C{{def block}}T{{m}}{{enddef}}'
        [] name = <<"c", "h", "i", "l", "d">> -> Plain(<<"{", "{", "i", "n", "h", "e", "r", "i", "t", " ", "p", "}", "}", "C", "{", "{", "d", "e", "f", " ", "b", "l", "o", "c", "k", "}", "}", "T", "{", "{", "m", "}", "}", "{", "{", "e", "n", "d", "d", "e", "f", "}", "}">>)
        [] name = <<"c", "h", "i", "l", "d", "d">> ->
             \* 'C{{m}}{{def block}}T{{enddef}}'
             Entry(<<"C", "{", "{", "m", "}", "}", "{", "{", "d", "e", "f", " ", "b", "l", "o", "c", "k", "}", "}", "T", "{", "{", "e", "n", "d", "d", "e", "f", "}", "}">>, <<>>, TRUE, Str(<<"b", "a", "s", "e">>), NoneV)
        [] name = <<"c", "h", "i", "l", "d", "i">> ->
             \* '{{inherit p}}C{{def block}}T{{enddef}}'
             Entry(<<"{", "{", "i", "n", "h", "e", "r", "i", "t", " ", "p", "}", "}", "C", "{", "{", "d", "e", "f", " ", "b", "l", "o", "c", "k", "}", "}", "T", "{", "{", "e", "n", "d", "d", "e", "f", "}", "}">>, <<>>, TRUE, Str(<<"p", "l", "a", "i", "n">>),
                   NoneV)
        [] name = <<"b", "o", "d", "y", "d", "e", "f">> ->
             \* '{{def body}}B{{enddef}}{{inherit \"base\"}}C{{def block}}T{{enddef}}'
             Plain(<<"{", "{", "d", "e", "f", " ", "b", "o", "d", "y", "}", "}", "B", "{", "{", "e", "n", "d", "d", "e", "f", "}", "}", "{", "{", "i", "n", "h", "e", "r", "i", "t", " ", "\"", "b", "a", "s", "e", "\"", "}", "}", "C", "{", "{", "d", "e", "f", " ", "b", "l", "o", "c", "k", "}", "}", "T", "{", "{", "e", "n", "d", "d", "e", "f", "}", "}">>)
        \* '{{inherit \"base\"}}C'
        [] name = <<"n", "o", "l", "o", "a", "d", "e", "r">> -> Entry(<<"{", "{", "i", "n", "h", "e", "r", "i", "t", " ", "\"", "b", "a", "s", "e", "\"", "}", "}", "C">>, <<>>, FALSE, NoneV, NoneV)
        [] name = <<"b", "r", "o", "k", "e", "n">> -> Plain(<<"{", "{", "i", "f", " ", "x", "}", "}">>)
        \* '{{inherit \"base\"}}C': a child of base without a def block
        [] name = <<"n", "o", "d", "e", "f">> -> Plain(<<"{", "{", "i", "n", "h", "e", "r", "i", "t", " ", "\"", "b", "a", "s", "e", "\"", "}", "}", "C">>)
        [] name = <<"d", "e", "f", "c", "o", "p", "y">> ->
             \* '{{def f}}{{v}}{{default w=2}}{{w}}{{for i in x}}{{i}}{{endfor}}{{def g}}{{enddef}}{{enddef}}{{default v=7}}{{f()}}{{default w=3}}{{w}}'
             Plain(<<"{", "{", "d", "e", "f", " ", "f", "}", "}", "{", "{", "v", "}", "}", "{", "{", "d", "e", "f", "a", "u", "l", "t", " ", "w", "=", "2", "}", "}", "{", "{", "w", "}", "}", "{", "{", "f", "o", "r", " ", "i", " ", "i", "n", " ", "x", "}", "}", "{", "{", "i", "}", "}", "{", "{", "e", "n", "d", "f", "o", "r", "}", "}", "{", "{", "d", "e", "f", " ", "g", "}", "}", "{", "{", "e", "n", "d", "d", "e", "f", "}", "}", "{", "{", "e", "n", "d", "d", "e", "f", "}", "}", "{", "{", "d", "e", "f", "a", "u", "l", "t", " ", "v", "=", "7", "}", "}", "{", "{", "f", "(", ")", "}", "}", "{", "{", "d", "e", "f", "a", "u", "l", "t", " ", "w", "=", "3", "}", "}", "{", "{", "w", "}", "}">>)
        [] name = <<"l", "a", "s", "t", "i", "n", "h">> ->
             \* '{{def f}}{{inherit "plain"}}D{{enddef}}{{inherit p}}{{for i in x}}{{if i}}{{inherit q}}{{endif}}{{endfor}}{{f()}}C'
             Plain(<<"{", "{", "d", "e", "f", " ", "f", "}", "}", "{", "{", "i", "n", "h", "e", "r", "i", "t", " ", "\"", "p", "l", "a", "i", "n", "\"", "}", "}", "D", "{", "{", "e", "n", "d", "d", "e", "f", "}", "}", "{", "{", "i", "n", "h", "e", "r", "i", "t", " ", "p", "}", "}", "{", "{", "f", "o", "r", " ", "i", " ", "i", "n", " ", "x", "}", "}", "{", "{", "i", "f", " ", "i", "}", "}", "{", "{", "i", "n", "h", "e", "r", "i", "t", " ", "q", "}", "}", "{", "{", "e", "n", "d", "i", "f", "}", "}", "{", "{", "e", "n", "d", "f", "o", "r", "}", "}", "{", "{", "f", "(", ")", "}", "}", "C">>)
        \* '{{inherit "loop"}}L'
        [] name = <<"l", "o", "o", "p">> -> Plain(<<"{", "{", "i", "n", "h", "e", "r", "i", "t", " ", "\"", "l", "o", "o", "p", "\"", "}", "}", "L">>)
        \* '{{inherit "pong"}}P'
        [] name = <<"p", "i", "n", "g">> -> Plain(<<"{", "{", "i", "n", "h", "e", "r", "i", "t", " ", "\"", "p", "o", "n", "g", "\"", "}", "}", "P">>)
        \* '{{inherit "ping"}}Q'
        [] name = <<"p", "o", "n", "g">> -> Plain(<<"{", "{", "i", "n", "h", "e", "r", "i", "t", " ", "\"", "p", "i", "n", "g", "\"", "}", "}", "Q">>)]

\* Template.__init__ from the return of its call of parse on: [exc, obj]
Template_init(p, content, name, namespace, get_template, default_inherit, default_filter) ==
    [exc |-> p.exc,
     obj |-> [name |-> name, content |-> content, _parsed |-> p.parsed,
              namespace |-> namespace, get_template |-> get_template,
              default_inherit |-> default_inherit,
              default_filter |-> default_filter]]

\* Template.__init__: [exc, obj]
Template(content, name, namespace, get_template, default_inherit, default_filter) ==
    Template_init(parse(content, name, 0), content, name, namespace, get_template,
                  default_inherit, default_filter)

\* a loader that answers every request with the requesting template
get_template_same(name, from_template) == [exc |-> NoExc, obj |-> from_template]

\* the caller's loader: the library entry of that name, compiled
get_template(name, from_template) ==
    IF name.t = "str" /\ name.v \in DOMAIN Library
    THEN Template(Library[name.v].content, name.v, Library[name.v].namespace,
                  Library[name.v].get_template, Library[name.v].default_inherit,
                  Library[name.v].default_filter)
    ELSE [exc |-> Raise("KeyError", "no such template"), obj |-> NoneV]

\* d.pop(k)
Pop(d, k) == [x \in DOMAIN d \ {k} |-> d[x]]

\* what Template._interpret returns once _interpret_codes left the state st:
\* st and (result, defs, inherit)
_interpret_return(st) ==
    [st |-> st, result |-> st.out,
     defs |-> Pop(st.defs, <<"_", "_", "i", "n", "h", "e", "r", "i", "t", "_", "_">>),
     inherit |-> IF <<"_", "_", "i", "n", "h", "e", "r", "i", "t", "_", "_">> \in DOMAIN st.defs
                 THEN st.defs[<<"_", "_", "i", "n", "h", "e", "r", "i", "t", "_", "_">>] ELSE NoneV]

\* Template._interpret
_interpret(self, ns, st) ==
    _interpret_return(_interpret_codes(self, self._parsed, ns,
                                       [st EXCEPT !.out = <<>>, !.defs = <<>>]))

\* Template._interpret_inherit with the proxy self_, templ being what
\* get_template returns when called: [exc, templ, ns], templ and ns the
\* receiver and the argument of the call of templ.substitute it ends with
inherit_call(self, templ, self_, ns) ==
    IF ~self.get_template
    THEN [exc |-> TemplateError(
                    "You cannot use inheritance without passing in get_template",
                    <<>>, self.name),
          templ |-> NoneV, ns |-> <<>>]
    ELSE IF templ.exc.type # "none"
    THEN [exc |-> templ.exc, templ |-> NoneV, ns |-> <<>>]
    ELSE [exc |-> NoExc, templ |-> templ.obj, ns |-> Put(ns, <<"s", "e", "l", "f">>, self_)]

\* _interpret_inherit without its "self_.body = body"
_interpret_inherit_no_body(self, body, defs, inherit_template, ns) ==
    inherit_call(self, get_template(inherit_template, self),
                 TemplateObject(self.name, defs), ns)

\* Template._interpret_inherit up to its call of templ.substitute
_interpret_inherit(self, body, defs, inherit_template, ns) ==
    inherit_call(self, get_template(inherit_template, self),
                 TemplateObject(self.name, Put(defs, <<"b", "o", "d", "y">>, Str(body))), ns)

\* ---- end of the compile-time model ----

(***************************************************************************)
(* Inputs                                                                  *)
(***************************************************************************)
\* sources for lex: every text of at most MaxLexLen characters
\* a directive between its delimiters
Directive(text) == delimeters[1] \o text \o delimeters[2]

\* the concatenation of a sequence of texts
RECURSIVE Concat(_)
Concat(texts) == IF texts = <<>> THEN <<>> ELSE Head(texts) \o Concat(Tail(texts))

LexAlphabet == {"{", "}", "a", "\n"}

\* every source of at most MaxLexLen characters
CharSources == UNION {[1..n -> LexAlphabet] : n \in 0..MaxLexLen}

\* the pieces of the sources with several directives: a directive, a
\* directive with a line break in it, a line break and a letter
PositionPieces == { Directive(<<"a">>), Directive(<<"\n", "a">>), <<"\n">>, <<"a">> }

\* every source of at most MaxPositionPieces such pieces
PositionSources ==
    {Concat(ps) : ps \in UNION {[1..n -> PositionPieces] : n \in 0..MaxPositionPieces}}

LexSources == CharSources \cup PositionSources

\* sources for trim_lex: literal text around at most MaxTrimDirs directives
TrimLits ==
    { <<>>, <<"\n">>, <<" ">>, <<"a">>, <<"a", "\n">>, <<"\n", "a">>,
      <<"\n", "\n">>, <<"\n", " ">>, <<" ", "\n">> }

TrimDirs ==
    { <<"i", "f", " ", "x">>, <<"e", "n", "d", "i", "f">>, <<" ", "e", "l", "s", "e">>,
      <<"y">>, <<"#", "c">>, <<"d", "e", "f", "a", "u", "l", "t", "_", "v", "a", "l", "u", "e">> }

RECURSIVE TrimSourcesN(_)
TrimSourcesN(n) ==
    IF n = 0 THEN TrimLits
    ELSE {p \o delimeters[1] \o d \o delimeters[2] \o l :
            p \in TrimSourcesN(n - 1), d \in TrimDirs, l \in TrimLits}

TrimSources == UNION {TrimSourcesN(n) : n \in 1..MaxTrimDirs}

(***************************************************************************)
(* Calls of lex and trim_lex                                               *)
(***************************************************************************)
LexCall ==
    /\ pc = "lex"
    /\ LET r == lex(s, "None", trim_whitespace, line_offset)
       IN  /\ chunks' = r.chunks
           /\ exc' = r.exc
           /\ pc' = IF r.exc.type = "none" THEN "lexed" ELSE "raised"
           /\ passes' = IF r.exc.type = "none" /\ trim_whitespace THEN 1 ELSE 0
    /\ UNCHANGED <<s, trim_whitespace, line_offset, parsed>>
    /\ UNCHANGED render_vars

TrimCall ==
    /\ pc = "lexed"
    /\ passes < MaxPasses
    /\ chunks' = trim_lex(chunks)
    /\ passes' = passes + 1
    /\ UNCHANGED <<pc, s, trim_whitespace, line_offset, exc, parsed>>
    /\ UNCHANGED render_vars

\* no render in progress
NoRender ==
    /\ call = [name |-> <<>>, kw |-> <<>>]
    /\ tmpl = NoneV
    /\ kw = <<>>
    /\ rt = NoState
    /\ chain = <<>>
    /\ output = <<>>
    /\ held = NoneV
    /\ history = <<>>

InitLex ==
    /\ NoRender
    /\ pc = "lex"
    /\ s \in LexSources
    /\ trim_whitespace \in BOOLEAN
    /\ line_offset \in {0, 1}
    /\ chunks = <<>>
    /\ exc = NoExc
    /\ passes = 0
    /\ parsed = <<>>

SpecLex == InitLex /\ [][LexCall]_vars

InitTrim ==
    /\ NoRender
    /\ pc = "lex"
    /\ s \in TrimSources
    /\ trim_whitespace = FALSE
    /\ line_offset = 0
    /\ chunks = <<>>
    /\ exc = NoExc
    /\ passes = 0
    /\ parsed = <<>>

NextTrim == LexCall \/ TrimCall

SpecTrim == InitTrim /\ [][NextTrim]_vars

(***************************************************************************)
(* Calls of parse                                                          *)
(***************************************************************************)
\* the pieces sources are put together from: a literal and the block
\* directives
ParsePieces ==
    { <<"a">>, Directive(<<"i", "f", " ", "x">>), Directive(<<"e", "l", "i", "f", " ", "y">>), Directive(<<"e", "l", "s", "e">>),
      Directive(<<"e", "n", "d", "i", "f">>), Directive(<<"f", "o", "r", " ", "i", " ", "i", "n", " ", "x">>), Directive(<<"e", "n", "d", "f", "o", "r">>),
      Directive(<<"d", "e", "f", " ", "f">>), Directive(<<"e", "n", "d", "d", "e", "f">>), Directive(<<"b", "r", "e", "a", "k">>),
      Directive(<<"c", "o", "n", "t", "i", "n", "u", "e">>) }

\* every source of at most MaxParseLen pieces
PieceSources ==
    {Concat(ps) : ps \in UNION {[1..n -> ParsePieces] : n \in 0..MaxParseLen}}

\* an if block and a default directive with literal text, line breaks and
\* blanks around their directives
WhitespaceSources ==
    {p \o Directive(<<"i", "f", " ", "x">>) \o l \o Directive(<<"e", "n", "d", "i", "f">>) \o q :
        p \in TrimLits, l \in TrimLits, q \in TrimLits}
    \cup {p \o Directive(<<"d", "e", "f", "a", "u", "l", "t", " ", "x", "=", "1">>) \o l \o Directive(<<"y">>) \o q :
            p \in TrimLits, l \in TrimLits, q \in TrimLits}

\* for loops by the text between "for" and the end of the directive
ForHeads ==
    { <<" ", "i", " ", "i", "n", " ", "x">>, <<" ", "a", ",", " ", "b", " ", "i", "n", " ", "z", ":">>, <<" ", "a", ",", "b", ",", "c", " ", "i", "n", " ", "z">>, <<" ", "x">>, <<" ", ",", " ", "i", "n", " ", "x">>,
      <<" ", " ", "i", "n", " ", "x">>, <<" ", "i", "n", " ", "x">>, <<" ", "(", "a", ")", " ", "i", "n", " ", "b">>, <<" ", "a", ",", " ", "(", "b", ")", " ", "i", "n", " ", "z">>, <<" ", ",", ",", " ", "i", "n", " ", "x">>,
      <<" ", "i", "\t", "i", "n", "\t", "x">>, <<" ", "i", " ", "i", "n">>, <<" ", "i", "n", " ", "i", "n", " ", "i", "n">>, <<" ", "a", ",", " ", "i", "n", " ", "z">> }

ForSources ==
    {Directive(<<"f", "o", "r">> \o h) \o <<"a">> \o Directive(<<"e", "n", "d", "f", "o", "r">>) : h \in ForHeads}

ParseSources == PieceSources \cup WhitespaceSources \cup ForSources

ParseCall ==
    /\ pc = "parse"
    /\ \E r \in {parse(s, "None", line_offset)} :
           /\ parsed' = r.parsed
           /\ exc' = r.exc
           /\ pc' = IF r.exc.type = "none" THEN "parsed" ELSE "raised"
    /\ UNCHANGED <<s, trim_whitespace, line_offset, chunks, passes>>
    /\ UNCHANGED render_vars

InitParse ==
    /\ NoRender
    /\ pc = "parse"
    /\ s \in ParseSources
    /\ trim_whitespace = TRUE
    /\ line_offset = 0
    /\ chunks = <<>>
    /\ exc = NoExc
    /\ passes = 0
    /\ parsed = <<>>

SpecParse == InitParse /\ [][ParseCall]_vars

(***************************************************************************)
(* Renders: the mappings each library template is rendered with            *)
(***************************************************************************)
One(k, v) == [x \in {k} |-> v]

\* every dict with keys among ks and values among vs
Dicts(ks, vs) == UNION {[d -> vs] : d \in SUBSET ks}

Ints == {IntV(0), IntV(1), IntV(2)}

IntLists(n) == {ListV(l) : l \in UNION {[1..k -> Ints] : k \in 0..n}}

\* elements of one, two and three parts, and one without a length
UnpackItems ==
    { ListV(<<IntV(1), IntV(2)>>), ListV(<<IntV(3), IntV(4)>>), ListV(<<IntV(5)>>),
      ListV(<<IntV(6), IntV(7), IntV(8)>>), Str(<<"a", "b">>), IntV(5) }

Filters == [k \in {<<"i", "n", "c">>, <<"d", "b", "l">>} |-> IF k = <<"i", "n", "c">> THEN FuncV("inc") ELSE FuncV("dbl")]

Targets == {Str(<<"b", "a", "s", "e">>), Str(<<"b", "a", "s", "e", "n", "s">>), Str(<<"p", "l", "a", "i", "n">>), Str(<<"m", "i", "d">>), Str(<<"n", "o", "p", "e">>),
            Str(<<>>), NoneV, IntV(1)}

Kws(name) ==
    CASE name = <<"i", "f">> ->
            {Update(d, [k \in {<<"y">>, <<"z">>} |-> IF k = <<"y">> THEN IntV(2) ELSE IntV(3)]) :
                d \in Dicts({<<"x">>}, {IntV(0), IntV(1), NoneV, Str(<<>>)})}
      [] name \in {<<"e", "l", "i", "f">>, <<"n", "o", "e", "l", "s", "e">>} ->
            Dicts({<<"a">>, <<"b">>, <<"c">>}, {IntV(0), IntV(1)})
      [] name \in {<<"b", "r", "e", "a", "k">>, <<"c", "o", "n", "t", "i", "n", "u", "e">>} ->
            {One(<<"x">>, l) : l \in IntLists(MaxList)}
      [] name \in {<<"d", "e", "f", "b", "r", "e", "a", "k">>, <<"d", "e", "f", "c", "o", "n", "t">>, <<"d", "e", "f", "r", "e", "p", "r">>} ->
            {One(<<"x">>, l) : l \in IntLists(MaxInner)}
      [] name \in {<<"n", "e", "s", "t", "e", "d">>, <<"d", "e", "f", "l", "o", "o", "p">>} ->
            {Update(One(<<"x">>, l), One(<<"y">>, m)) :
                l \in IntLists(MaxInner), m \in IntLists(MaxInner)}
      [] name = <<"u", "n", "p", "a", "c", "k">> ->
            {One(<<"z">>, ListV(l)) :
                l \in UNION {[1..k -> UnpackItems] : k \in 0..MaxUnpack}}
      [] name \in {<<"d", "e", "f", "a", "u", "l", "t">>, <<"d", "e", "f", "a", "u", "l", "t", "u">>} ->
            Dicts({<<"x">>, <<"u">>}, {IntV(0), IntV(2), NoneV})
      [] name \in {<<"p", "i", "p", "e">>, <<"p", "i", "p", "e", "f">>} ->
            {Update(Filters, d) : d \in Dicts({<<"n">>}, Ints \cup {Str(<<"s">>)})}
      [] name \in {<<"c", "h", "i", "l", "d">>, <<"c", "h", "i", "l", "d", "i">>} ->
            {Update(d, e) : d \in Dicts({<<"p">>}, Targets),
                            e \in Dicts({<<"m">>}, {IntV(1)})}
      [] name \in {<<"c", "h", "i", "l", "d", "d">>, <<"b", "o", "d", "y", "d", "e", "f">>, <<"n", "o", "l", "o", "a", "d", "e", "r">>, <<"m", "i", "d">>, <<"n", "o", "d", "e", "f">>} ->
            Dicts({<<"m">>}, {IntV(1)})
      [] name = <<"d", "e", "f", "c", "o", "p", "y">> ->
            {Update(One(<<"x">>, l), d) :
                l \in IntLists(MaxInner), d \in Dicts({<<"v">>, <<"w">>}, {IntV(4)})}
      [] name = <<"l", "a", "s", "t", "i", "n", "h">> ->
            {Update(One(<<"x">>, l), d) :
                l \in IntLists(MaxInner),
                d \in {[k \in {<<"p">>, <<"q">>} |-> IF k = <<"p">> THEN a ELSE b] :
                         a \in {Str(<<"b", "a", "s", "e", "n", "s">>), Str(<<"p", "l", "a", "i", "n">>)},
                         b \in {Str(<<"b", "a", "s", "e", "n", "s">>), Str(<<>>)}}}
      [] OTHER -> {<<>>}

Calls == UNION {{[name |-> n, kw |-> k] : k \in Kws(n)} : n \in DOMAIN Library}

(***************************************************************************)
(* Renders: Template(...) and substitute                                   *)
(***************************************************************************)
\* the caller constructs the template of its render
TemplateInit ==
    /\ pc = "start"
    /\ \E t \in {Template(Library[call.name].content, call.name,
                           Library[call.name].namespace,
                           Library[call.name].get_template,
                           Library[call.name].default_inherit,
                           Library[call.name].default_filter)} :
           /\ pc' = IF t.exc.type = "none" THEN "compiled" ELSE "raised"
           /\ exc' = t.exc
           /\ tmpl' = IF t.exc.type = "none" THEN t.obj ELSE tmpl
           /\ kw' = call.kw
           /\ held' = [template |-> IF t.exc.type = "none" THEN t.obj ELSE NoneV,
                       mapping |-> call.kw]
    /\ UNCHANGED <<call, rt, chain, output, history>>
    /\ UNCHANGED lex_vars

\* no copy: the dict kw itself
copy_same(x) == [v |-> x, new |-> FALSE]

\* copy(kw): a new dict with the bindings of kw
copy(x) == [v |-> x, new |-> TRUE]

\* what a finished substitute leaves in history
Outcome(at, text, e) == [pc |-> at, output |-> text, exc |-> e]

\* the namespace substitute starts from: copy(kw), __template_name__ and
\* the template's own namespace
substitute_ns(self, kw0) ==
    Update(Put(kw0, <<"_", "_", "t", "e", "m", "p", "l", "a", "t", "e", "_", "n", "a", "m", "e", "_", "_">>, Str(self.name)), self.namespace)

\* Template.substitute(kw) of tmpl, up to its return or to the substitute
\* of the parent template that _interpret_inherit ends with; r is what
\* _interpret returned, up what _interpret_inherit came to
Substitute ==
    /\ pc = "compiled"
    /\ Len(chain) < MaxDepth
    /\ \E n \in {Len(rt.heap) + 1} :
       \E ns \in {copy(kw)} :
       \E r \in {_interpret(tmpl, n, [rt EXCEPT !.heap = Append(@, substitute_ns(tmpl, ns.v)),
                                               !.evals = <<>>])} :
       \E inherit \in {IF ~truthy(r.inherit) THEN tmpl.default_inherit ELSE r.inherit} :
       \E up \in {_interpret_inherit(tmpl, r.result, r.defs, inherit, r.st.heap[n])} :
           /\ rt' = r.st
           /\ chain' = Append(chain, [name |-> tmpl.name, ns |-> n,
                                      result |-> r.result, defs |-> r.defs,
                                      inherit |-> r.inherit, target |-> inherit])
           /\ IF Failed(r.st)
              THEN pc' = "raised" /\ exc' = r.st.exc /\ UNCHANGED <<tmpl, kw, output>>
              ELSE IF ~truthy(inherit)
              THEN pc' = "done" /\ output' = r.result /\ UNCHANGED <<tmpl, kw, exc>>
              ELSE IF up.exc.type # "none"
              THEN pc' = "raised" /\ exc' = up.exc /\ UNCHANGED <<tmpl, kw, output>>
              ELSE /\ pc' = "compiled" /\ tmpl' = up.templ /\ kw' = up.ns
                   /\ UNCHANGED <<exc, output>>
           /\ held' = IF chain = <<>> /\ ~ns.new
                       THEN [held EXCEPT !.mapping = r.st.heap[n]]
                       ELSE held
           /\ history' = IF pc' \in {"done", "raised"}
                          THEN Append(history, Outcome(pc', output', exc'))
                          ELSE history
    /\ UNCHANGED call
    /\ UNCHANGED lex_vars

\* The substitute of one more parent would nest deeper than the interpreter's
\* recursion limit allows: the call raises RecursionError, which passes
\* through every substitute of the chain to the caller
RecursionLimit ==
    /\ pc = "compiled"
    /\ Len(chain) >= MaxDepth
    /\ pc' = "raised"
    /\ exc' = Raise("RecursionError", "maximum recursion depth exceeded")
    /\ history' = Append(history, Outcome("raised", output, exc'))
    /\ UNCHANGED <<call, tmpl, kw, rt, chain, output, held>>
    /\ UNCHANGED lex_vars

\* the caller renders its template again with its mapping
SubstituteAgain ==
    /\ pc \in {"done", "raised"}
    /\ chain # <<>>
    /\ Len(history) < MaxRenders
    /\ pc' = "compiled"
    /\ tmpl' = held.template
    /\ kw' = held.mapping
    /\ rt' = NoState
    /\ chain' = <<>>
    /\ output' = <<>>
    /\ exc' = NoExc
    /\ UNCHANGED <<call, held, history>>
    /\ UNCHANGED lex_vars

InitRender ==
    /\ pc = "start"
    /\ call \in Calls
    /\ tmpl = NoneV
    /\ kw = <<>>
    /\ rt = NoState
    /\ chain = <<>>
    /\ output = <<>>
    /\ held = NoneV
    /\ history = <<>>
    /\ s = <<>>
    /\ trim_whitespace = TRUE
    /\ line_offset = 0
    /\ chunks = <<>>
    /\ exc = NoExc
    /\ passes = 0
    /\ parsed = <<>>

NextRender == TemplateInit \/ Substitute \/ RecursionLimit \/ SubstituteAgain

SpecRender == InitRender /\ [][NextRender]_vars

\* TemplateInit can take a step exactly when pc = "start" and every step of it
\* changes pc
TemplateInitEnabled == pc = "start"

\* Substitute can take a step exactly when its two guards hold and every step
\* of it lengthens chain
SubstituteEnabled == pc = "compiled" /\ Len(chain) < MaxDepth

\* A render runs in one thread from the call of Template(...) to the return
\* or raise of substitute: each of its steps is taken once it can be (weak
\* fairness, for TemplateInit and Substitute written out with the conditions
\* under which they can take a step); whether the caller renders again is up
\* to the caller
FairRender ==
    /\ SpecRender
    /\ []<>(~TemplateInitEnabled) \/ []<><<TemplateInit>>_vars
    /\ []<>(~SubstituteEnabled) \/ []<><<Substitute>>_vars
    /\ WF_vars(RecursionLimit)

(***************************************************************************)
(* Claims about lex                                                        *)
(***************************************************************************)
\* the delimiters of x read left to right: TRUE for an open, FALSE for a close
DelimKinds(x) ==
    LET ms == finditer(x, 0)
    IN  [k \in 1..Len(ms) |-> ms[k].group = delimeters[1]]

\* open, close, open, close, ... starting with an open and ending with a close
Alternates(ks) ==
    /\ Len(ks) % 2 = 0
    /\ \A k \in 1..Len(ks) : ks[k] = (k % 2 = 1)

\* the error the first offending delimiter calls for
FirstOffence(ks) ==
    LET bad == {k \in 1..Len(ks) : ks[k] # (k % 2 = 1)}
        k0 == CHOOSE k \in bad : \A j \in bad : k <= j
    IN  IF bad = {} THEN "No close delimiter to finish last expression"
        ELSE IF ks[k0] THEN "open delimiter inside expression"
        ELSE "close delimiter outside expression"

\* C1: lex succeeds exactly when the delimiters of the source alternate open,
\* close, ... (or there are none); otherwise it raises TemplateError for an
\* open inside a directive, a close outside one or an unfinished directive,
\* and returns no token list.
C1_LexSucceedsIffAlternating ==
    pc # "lex" =>
        /\ (exc.type = "none") <=> Alternates(DelimKinds(s))
        /\ exc.type # "none" =>
              /\ pc = "raised"
              /\ exc.type = "TemplateError"
              /\ exc.msg = FirstOffence(DelimKinds(s))
              /\ chunks = <<>>

\* a source with a well-formed directive followed by a stray close delimiter
C1_Witness ==
    /\ pc = "raised"
    /\ exc.type = "TemplateError"
    /\ exc.msg = "close delimiter outside expression"
    /\ Len(finditer(s, 0)) = 3

(***************************************************************************)
(* Claims about trim_lex                                                   *)
(***************************************************************************)
ControlWords ==
    { <<"i", "f">>, <<"e", "l", "i", "f">>, <<"e", "l", "s", "e">>,
      <<"f", "o", "r">>, <<"d", "e", "f">>,
      <<"i", "n", "h", "e", "r", "i", "t">>,
      <<"d", "e", "f", "a", "u", "l", "t">>,
      <<"e", "n", "d", "i", "f">>, <<"e", "n", "d", "f", "o", "r">>,
      <<"e", "n", "d", "d", "e", "f">>,
      <<"c", "o", "n", "t", "i", "n", "u", "e">>, <<"b", "r", "e", "a", "k">> }

\* the first whitespace-delimited word of a directive's text
FirstWord(text) ==
    LET w == strip(text)
        ends == {k \in 1..Len(w) : isspace(w[k])}
    IN  IF ends = {} THEN w
        ELSE SubSeq(w, 1, (CHOOSE k \in ends : \A j \in ends : k <= j) - 1)

IsControl(text) == FirstWord(text) \in ControlWords

NewlinesOf(v) == {k \in 1..Len(v) : v[k] = "\n"}

FirstNL(v) == CHOOSE k \in NewlinesOf(v) : \A j \in NewlinesOf(v) : k <= j

LastNL(v) == CHOOSE k \in NewlinesOf(v) : \A j \in NewlinesOf(v) : j <= k

\* Token i of the untrimmed token list T is a control directive alone on its
\* source line: only horizontal whitespace between the previous line break (or
\* the start of the input) and it, and between it and the next line break (or
\* the end of the input).
StandsAlone(T, i) ==
    /\ T[i].t = "tup"
    /\ IsControl(T[i].v)
    /\ \/ i = 1
       \/ /\ T[i - 1].t = "str"
          /\ LET v == T[i - 1].v
             IN  IF NewlinesOf(v) = {}
                 THEN i = 2 /\ \A k \in 1..Len(v) : ishspace(v[k])
                 ELSE \A k \in (LastNL(v) + 1)..Len(v) : ishspace(v[k])
    /\ \/ i = Len(T)
       \/ /\ T[i + 1].t = "str"
          /\ LET v == T[i + 1].v
             IN  IF NewlinesOf(v) = {}
                 THEN i + 1 = Len(T) /\ \A k \in 1..Len(v) : ishspace(v[k])
                 ELSE \A k \in 1..(FirstNL(v) - 1) : ishspace(v[k])

\* What is left of literal token j of T once the directive-only lines next to
\* it are removed and nothing else is.
ExpectedLiteral(T, j) ==
    LET v == T[j].v
        a == IF j > 1 /\ StandsAlone(T, j - 1)
             THEN (IF NewlinesOf(v) = {} THEN Len(v) ELSE FirstNL(v))
             ELSE 0
        b == IF j < Len(T) /\ StandsAlone(T, j + 1)
             THEN (IF NewlinesOf(v) = {} THEN 0 ELSE LastNL(v))
             ELSE Len(v)
    IN  SubSeq(v, a + 1, b)

\* C7: a control directive that stands alone on its source line leaves no
\* residue of that line in the literal text: trim_lex removes the horizontal
\* whitespace around it and that line's single line break, and nothing else.
C7_StandaloneLineRemovedOnly ==
    (pc = "lexed" /\ passes = 1) =>
        LET T == lex_chunks(s, "None", line_offset).chunks
        IN  /\ Len(chunks) = Len(T)
            /\ \A j \in 1..Len(T) :
                  IF T[j].t = "str"
                  THEN chunks[j] = Str(ExpectedLiteral(T, j))
                  ELSE chunks[j] = Tup(strip(T[j].v), T[j].pos)

\* C8: trim_lex is idempotent: a further pass over already trimmed tokens
\* changes no token.
C8_TrimIdempotent ==
    [][(pc = "lexed" /\ passes >= 1 /\ passes' = passes + 1) => chunks' = chunks]_vars


(***************************************************************************)
(* Claims about the interpreter                                            *)
(***************************************************************************)
Min(S) == CHOOSE k \in S : \A j \in S : k <= j

Finished == pc \in {"done", "raised"} /\ chain # <<>>

\* the text a body of literals and of names of the caller's mapping renders
RECURSIVE BodyText(_)
BodyText(content) ==
    IF content = <<>> THEN <<>>
    ELSE (IF Head(content).t = "str" THEN Head(content).v
          ELSE py_str(call.kw[strip(Head(content).code)]))
         \o BodyText(Tail(content))

\* a branch decides when it is the else, when its condition (a name) is truthy
\* in the caller's mapping, or when that name is missing there
Decides(part) ==
    \/ part.t = "else"
    \/ strip(part.expr) \notin DOMAIN call.kw
    \/ truthy(call.kw[strip(part.expr)])

CondTemplates == {<<"i", "f">>, <<"e", "l", "i", "f">>, <<"n", "o", "e", "l", "s", "e">>}

\* C2: a conditional evaluates its conditions in source order up to the first
\* branch that decides and no further, renders the body of that branch alone
\* (its condition truthy, or the else), and with no such branch adds no output
\* and raises nothing
C2_CondFirstTruthyBranch ==
    (Finished /\ call.name \in CondTemplates) =>
        LET nodes == tmpl._parsed
            ci == CHOOSE i \in 1..Len(nodes) : nodes[i].t = "cond"
            parts == nodes[ci].parts
            ks == {k \in 1..Len(parts) : Decides(parts[k])}
            tried == IF ks = {} THEN parts ELSE SubSeq(parts, 1, Min(ks))
            IsCond(p) == p.t # "else"
            AtCond(e) == \E k \in 1..Len(parts) : parts[k].pos = e.pos
            conds == SelectSeq(tried, IsCond)
            around(body) == BodyText(SubSeq(nodes, 1, ci - 1)) \o body
                            \o BodyText(SubSeq(nodes, ci + 1, Len(nodes)))
        IN  /\ SelectSeq(rt.evals, AtCond)
                 = [k \in 1..Len(conds) |-> [code |-> conds[k].expr, pos |-> conds[k].pos]]
            /\ IF ks = {} THEN pc = "done" /\ output = around(<<>>)
               ELSE IF parts[Min(ks)].t # "else"
                       /\ strip(parts[Min(ks)].expr) \notin DOMAIN call.kw
               THEN pc = "raised" /\ exc.type = "NameError"
               ELSE pc = "done" /\ output = around(BodyText(parts[Min(ks)].content))

\* the second of three conditions is the first truthy one and the third, being
\* undefined, would raise if it were evaluated
C2_Witness ==
    /\ pc = "done"
    /\ call.name = <<"e", "l", "i", "f">>
    /\ DOMAIN call.kw = {<<"a">>, <<"b">>}
    /\ ~truthy(call.kw[<<"a">>])
    /\ truthy(call.kw[<<"b">>])
    /\ output = <<"B">>

\* the text of the library's loop "<" [break or continue when not i] i ">" over
\* items: an element is rendered in full when truthy; a falsy one leaves its
\* "<" and, with stop, ends the loop
RECURSIVE LoopText(_, _)
LoopText(items, stop) ==
    IF items = <<>> THEN <<>>
    ELSE IF truthy(Head(items))
    THEN <<"<">> \o py_str(Head(items)) \o <<">">> \o LoopText(Tail(items), stop)
    ELSE IF stop THEN <<"<">>
    ELSE <<"<">> \o LoopText(Tail(items), stop)

\* the element the loop variable is left bound to
LastBound(items, stop) ==
    LET falsy == {k \in 1..Len(items) : ~truthy(items[k])}
    IN  IF stop /\ falsy # {} THEN items[Min(falsy)] ELSE items[Len(items)]

\* C3: continue skips the rest of the body for the current element and the loop
\* goes on with the next one; break ends the loop and no later element is bound
\* or rendered; the output appended before either is kept
C3_BreakContinueKeepOutput ==
    (Finished /\ call.name \in {<<"b", "r", "e", "a", "k">>, <<"c", "o", "n", "t", "i", "n", "u", "e">>}) =>
        LET items == call.kw[<<"x">>].items
            stop == call.name = <<"b", "r", "e", "a", "k">>
        IN  /\ pc = "done"
            /\ output = LoopText(items, stop)
            /\ items # <<>> => rt.heap[1][<<"i">>] = LastBound(items, stop)
            /\ items = <<>> => <<"i">> \notin DOMAIN rt.heap[1]

\* a break on the second of three elements after the first was rendered
C3_Witness ==
    /\ pc = "done"
    /\ call.name = <<"b", "r", "e", "a", "k">>
    /\ call.kw[<<"x">>] = ListV(<<IntV(1), IntV(0), IntV(2)>>)
    /\ output = <<"<", "1", ">", "<">>

\* the values of items before the first falsy one, as text
RECURSIVE UntilFalsy(_)
UntilFalsy(items) ==
    IF items = <<>> \/ ~truthy(Head(items)) THEN <<>>
    ELSE py_str(Head(items)) \o UntilFalsy(Tail(items))

\* the library's nested loops when the inner loop alone consumes its break and
\* continue: "(" inner ")" for every outer element, the inner loop breaking at
\* its first falsy j and skipping every j while i is falsy
RECURSIVE NestedText(_, _)
NestedText(outer, inner) ==
    IF outer = <<>> THEN <<>>
    ELSE <<"(">> \o (IF truthy(Head(outer)) THEN UntilFalsy(inner) ELSE <<>>)
         \o <<")">> \o NestedText(Tail(outer), inner)

Signals == {"_TemplateBreak", "_TemplateContinue"}

\* C4: each break or continue is consumed by the innermost for loop running at
\* that moment (the outer loop goes on with its next element), and none leaves
\* a def-block call (what follows the call in the caller's body, the "c" of
\* the library's defcont, is rendered for every element) or substitute
C4_SignalsStayInLoop ==
    /\ pc = "raised" => exc.type \notin Signals
    /\ (Finished /\ call.name = <<"n", "e", "s", "t", "e", "d">>) =>
            /\ pc = "done"
            /\ output = NestedText(call.kw[<<"x">>].items, call.kw[<<"y">>].items)
    /\ (pc = "done" /\ call.name = <<"d", "e", "f", "c", "o", "n", "t">>) =>
            count(output, "c", 0, Len(output)) = Len(call.kw[<<"x">>].items)

\* the number of parts of an element, -1 for one that has no length
Parts(item) == IF item.t \in {"list", "str"} THEN Len(py_iter(item).items) ELSE -1

\* the text of the library's unpack loop, "a=b," for every pair
RECURSIVE PairsText(_)
PairsText(items) ==
    IF items = <<>> THEN <<>>
    ELSE LET p == py_iter(Head(items)).items
         IN  py_str(p[1]) \o <<"=">> \o py_str(p[2]) \o <<",">> \o PairsText(Tail(items))

\* C5: with two loop variables, an element whose number of parts is not two
\* makes the render fail with an error naming the expected and the actual
\* count, raised before any loop variable is rebound for that element and
\* before the body is rendered for it
C5_UnpackMismatchBeforeRebinding ==
    (Finished /\ call.name = <<"u", "n", "p", "a", "c", "k">>) =>
        LET items == call.kw[<<"z">>].items
            bad == {k \in 1..Len(items) : Parts(items[k]) # 2}
            ns == rt.heap[1]
        IN  IF bad = {} THEN pc = "done" /\ output = PairsText(items)
            ELSE /\ pc = "raised"
                 /\ rt.out = PairsText(SubSeq(items, 1, Min(bad) - 1))
                 /\ IF Min(bad) = 1
                    THEN <<"a">> \notin DOMAIN ns /\ <<"b">> \notin DOMAIN ns
                    ELSE LET p == py_iter(items[Min(bad) - 1]).items
                         IN  ns[<<"a">>] = p[1] /\ ns[<<"b">>] = p[2]
                 /\ Parts(items[Min(bad)]) >= 0 =>
                        /\ exc.type = "ValueError"
                        /\ exc.args[1].need = 2
                        /\ exc.args[1].got = Parts(items[Min(bad)])

\* a pair was bound and rendered, then an element of three parts came
C5_Witness ==
    /\ pc = "raised"
    /\ call.name = <<"u", "n", "p", "a", "c", "k">>
    /\ call.kw[<<"z">>] = ListV(<<ListV(<<IntV(1), IntV(2)>>),
                              ListV(<<IntV(6), IntV(7), IntV(8)>>)>>)
    /\ exc.type = "ValueError"
    /\ exc.args[1].got = 3
    /\ rt.heap[1][<<"a">>] = IntV(1)
    /\ rt.out = <<"1", "=", "2", ",">>

\* the text an expression directive appends for a value of the caller
ValueText(v) == IF v.t = "none" THEN <<>> ELSE py_str(v)

\* C6: {{default VAR=EXPR}} binds VAR to the value of EXPR only when VAR is no
\* key of the render namespace; when VAR is a key, whatever its value, EXPR is
\* not evaluated and the namespace stays as it was
C6_DefaultBindsOnlyMissing ==
    (Finished /\ call.name \in {<<"d", "e", "f", "a", "u", "l", "t">>, <<"d", "e", "f", "a", "u", "l", "t", "u">>}) =>
        LET d == tmpl._parsed[1]
            ns == rt.heap[1]
            \* '__template_name__'
            base == Put(call.kw, <<"_", "_", "t", "e", "m", "p", "l", "a", "t", "e", "_", "n", "a", "m", "e", "_", "_">>, Str(call.name))
            AtDefault(e) == e.pos = d.pos
            evaluated == SelectSeq(rt.evals, AtDefault)
            src == strip(d.expr)
        IN  IF d.var \in DOMAIN call.kw
            THEN /\ pc = "done"
                 /\ evaluated = <<>>
                 /\ ns = base
                 /\ output = ValueText(call.kw[d.var])
            ELSE /\ evaluated = <<[code |-> d.expr, pos |-> d.pos]>>
                 /\ IF src = <<"1">>
                    THEN pc = "done" /\ ns = Put(base, d.var, IntV(1)) /\ output = <<"1">>
                    ELSE IF src \in DOMAIN call.kw
                    THEN /\ pc = "done"
                         /\ ns = Put(base, d.var, call.kw[src])
                         /\ output = ValueText(call.kw[src])
                    ELSE pc = "raised" /\ exc.type = "NameError" /\ ns = base

\* x is a key whose value is None: the default 1 is not bound
C6_Witness ==
    /\ pc = "done"
    /\ call.name = <<"d", "e", "f", "a", "u", "l", "t">>
    /\ <<"x">> \in DOMAIN call.kw
    /\ call.kw[<<"x">>] = NoneV
    /\ rt.heap[1][<<"x">>] = NoneV
    /\ output = <<>>

\* C9: BASE|F1|...|Fn evaluates BASE once and applies the filters left to
\* right, each to the previous result; the default filter of the template is
\* applied only to a directive without filters.  The library's pipe and pipef
\* (default filter inc) render n|inc|dbl, n|dbl|inc, n|dbl and n
C9_FiltersLeftToRight ==
    (/\ Finished /\ call.name \in {<<"p", "i", "p", "e">>, <<"p", "i", "p", "e", "f">>}
     /\ <<"n">> \in DOMAIN call.kw /\ call.kw[<<"n">>].t = "int") =>
        LET n == call.kw[<<"n">>].n
            bare == IF call.name = <<"p", "i", "p", "e", "f">> THEN n + 1 ELSE n
        IN  /\ pc = "done"
            /\ output = itoa(2 * (n + 1)) \o <<";">> \o itoa(2 * n + 1) \o <<";">>
                        \o itoa(2 * n) \o <<";">> \o itoa(bare)
            /\ [k \in 1..Len(rt.evals) |-> rt.evals[k].code]
                  = << <<"n">>, <<"i", "n", "c">>, <<"d", "b", "l">>, <<"n">>, <<"d", "b", "l">>, <<"i", "n", "c">>,
                       <<"n">>, <<"d", "b", "l">>, <<"n">> >>

\* with the default filter inc and n = 1: dbl(inc(1)), inc(dbl(1)), dbl(1), inc(1)
C9_Witness ==
    /\ pc = "done"
    /\ call.name = <<"p", "i", "p", "e", "f">>
    /\ call.kw[<<"n">>] = IntV(1)
    /\ output = <<"4", ";", "3", ";", "2", ";", "2">>

(***************************************************************************)
(* Claims about inheritance                                                *)
(***************************************************************************)
\* the substitute that ran last
LastFrame == chain[Len(chain)]

\* how many times p occurs in x
Occurrences(x, p) == Cardinality({a \in 0..Len(x) : occursAt(x, p, a)})

\* how many times the expression code was evaluated in the last substitute
Evaluations(code) == Cardinality({k \in 1..Len(rt.evals) : strip(rt.evals[k].code) = code})

\* the proxy handed to the parent holds, for the def names given, the child's
\* definitions, and as body the child's output
ProxyHolds(proxy, c, names) ==
    /\ proxy.t = "obj"
    /\ DOMAIN proxy.attrs = DOMAIN c.defs \cup {<<"b", "o", "d", "y">>}
    /\ \A n \in names :
          /\ proxy.attrs[n] = c.defs[n]
          /\ c.defs[n].t = "def"
          /\ c.defs[n].func_name = n
    /\ proxy.attrs[<<"b", "o", "d", "y">>] = Str(c.result)

\* substitute hands over to the parent named target: the parent is the
\* loader's template of that name and its mapping is the child's namespace
\* plus self
HandsOver(c, target, names) ==
    /\ tmpl.name = target.v
    /\ tmpl.content = Library[target.v].content
    /\ DOMAIN kw = DOMAIN rt.heap[c.ns] \cup {<<"s", "e", "l", "f">>}
    /\ \A k \in DOMAIN rt.heap[c.ns] \ {<<"s", "e", "l", "f">>} : kw[k] = rt.heap[c.ns][k]
    /\ ProxyHolds(kw[<<"s", "e", "l", "f">>], c, names)

\* what substitute returns is the output of the last template of the chain,
\* and the output of the template before it occurs there once for every
\* evaluation of self.body
ReturnsParentOutput ==
    pc = "done" =>
        /\ output = LastFrame.result
        /\ Len(chain) >= 2 =>
              Occurrences(output, chain[Len(chain) - 1].result)
                 = Evaluations(<<"s", "e", "l", "f", ".", "b", "o", "d", "y">>)

\* C10 as claimed: when a render ends with a target set by an inherit
\* directive, or by default_inherit when the template set none, substitute
\* goes on to the parent, whose mapping is a copy of the child's namespace plus
\* self, a proxy holding every def of the child under its name and the child's
\* output as body; the child's output shows only where self.body is referenced
C10_InheritRendersParent ==
    chain # <<>> =>
        LET c == LastFrame
            target == IF c.inherit # NoneV THEN c.inherit
                      ELSE Library[c.name].default_inherit
        IN  /\ pc = "done" => target = NoneV
            /\ pc = "compiled" => HandsOver(c, target, DOMAIN c.defs)
            /\ ReturnsParentOutput

\* C10 amended: the target counts as set only when it is truthy (a falsy value
\* of the directive gives way to default_inherit, and with both falsy the
\* child's own output is returned), and a def named body is not held by the
\* proxy, whose body is the child's output
C10_InheritRendersParentTruthy ==
    chain # <<>> =>
        LET c == LastFrame
            target == IF truthy(c.inherit) THEN c.inherit
                      ELSE Library[c.name].default_inherit
        IN  /\ pc = "done" => ~truthy(target)
            /\ pc = "compiled" => /\ truthy(target)
                                  /\ HandsOver(c, target, DOMAIN c.defs \ {<<"b", "o", "d", "y">>})
            /\ ReturnsParentOutput

\* the child named base as its parent: base rendered the child's block and,
\* at self.body, the child's output
C10_Witness ==
    /\ pc = "done"
    /\ call.name = <<"c", "h", "i", "l", "d">>
    /\ Len(chain) = 2
    /\ chain[1].result = <<"C">>
    /\ chain[2].name = <<"b", "a", "s", "e">>
    /\ output = <<"[", "T", "1", "|", "C", "|", "1", "]">>

(***************************************************************************)
(* Claims about errors                                                     *)
(***************************************************************************)
\* C11: a parent that references self.NAME for a block the child did not
\* define renders without error, the reference giving the empty text: the
\* child without a def block, whose parent base references self.block,
\* renders to the parent's text with nothing in the place of the block
C11_UndefinedBlockIsEmpty ==
    (Finished /\ call.name = <<"n", "o", "d", "e", "f">> /\ <<"m">> \in DOMAIN call.kw) =>
        /\ pc = "done"
        /\ output = <<"[", "|", "C", "|", "1", "]">>

\* C12: a render is all-or-nothing: when a directive fails in the template or
\* in a parent of its inheritance chain, or the inheritance itself fails,
\* substitute raises that exception and returns no text, whatever output was
\* accumulated before; text is returned only by a render in which nothing
\* failed, and it is the output of the last template of the chain
C12_AllOrNothing ==
    /\ (chain # <<>> /\ rt.exc.type # "none") =>
          pc = "raised" /\ exc = rt.exc /\ output = <<>>
    /\ pc = "raised" => exc.type # "none" /\ output = <<>>
    /\ pc = "done" => /\ rt.exc.type = "none" /\ exc.type = "none"
                      /\ output = LastFrame.result

\* the parent of a chain failed after the child had rendered its text and
\* the parent had appended text of its own
C12_Witness ==
    /\ pc = "raised"
    /\ Len(chain) = 2
    /\ chain[1].result = <<"C">>
    /\ rt.out = <<"[">>
    /\ exc.type = "AttributeError"
    /\ output = <<>>

(***************************************************************************)
(* Claims about parse                                                      *)
(***************************************************************************)
IsDirective(c) == c.t = "tup"

\* the directives of the source in order, each with its text and position
Directives == SelectSeq(lex_chunks(s, "None", line_offset).chunks, IsDirective)

\* the word a directive opens a block with, "" when it opens none
Opens(w) ==
    CASE startswith(w, <<"i", "f", " ">>) -> "if"
      [] startswith(w, <<"f", "o", "r", " ">>) -> "for"
      [] startswith(w, <<"d", "e", "f", " ">>) -> "def"
      [] OTHER -> ""

\* the kind of block a directive closes, "" when it closes none
Closes(w) ==
    CASE w = <<"e", "n", "d", "i", "f">> -> "if"
      [] w = <<"e", "n", "d", "f", "o", "r">> -> "for"
      [] w = <<"e", "n", "d", "d", "e", "f">> -> "def"
      [] OTHER -> ""

\* The blocks left open, innermost last, by the directives ds read with the
\* blocks of stack open; <<"misplaced">> once a directive is out of place: an
\* elif or else whose innermost open block is no if, an end word that does
\* not close the innermost open block, a break or continue with no for open
RECURSIVE Nesting(_, _)
Nesting(ds, stack) ==
    LET w == strip(Head(ds).v)
        top == IF stack = <<>> THEN "" ELSE stack[Len(stack)]
        branch == startswith(w, <<"e", "l", "i", "f", " ">>) \/ w = <<"e", "l", "s", "e">>
        signal == w \in {<<"b", "r", "e", "a", "k">>, <<"c", "o", "n", "t", "i", "n", "u", "e">>}
        fits == /\ Closes(w) # "" => Closes(w) = top
                /\ branch => top = "if"
                /\ signal => "for" \in Range(stack)
    IN  CASE ds = <<>> -> stack
          [] ds # <<>> /\ ~fits -> <<"misplaced">>
          [] ds # <<>> /\ fits /\ Opens(w) # "" ->
                Nesting(Tail(ds), Append(stack, Opens(w)))
          [] ds # <<>> /\ fits /\ Closes(w) # "" ->
                Nesting(Tail(ds), SubSeq(stack, 1, Len(stack) - 1))
          [] OTHER -> Nesting(Tail(ds), stack)

\* every block directive of the source is in its place and every block closed
WellNested == Nesting(Directives, <<>>) = <<>>

\* C13: parse succeeds only for sources whose block directives are properly
\* nested; for every other source (an elif or else outside an open if, an end
\* word that does not close the innermost open block, the input ending in an
\* open block, a break or continue with no for open) it raises TemplateError
\* with the position of a directive of the source and returns no node
C13_ParseOnlyWellNested ==
    (pc \in {"parsed", "raised"} /\ s \in ParseSources) =>
        /\ pc = "parsed" => WellNested
        /\ ~WellNested =>
              /\ pc = "raised"
              /\ exc.type = "TemplateError"
              /\ \E k \in 1..Len(Directives) : exc.position = Directives[k].pos
              /\ parsed = <<>>

\* the endif of '{{if x}}{{for i in x}}{{endif}}{{endfor}}' does not close the
\* innermost open block: Unexpected endif at line 1 column 25
C13_Witness ==
    /\ pc = "raised"
    /\ s = Directive(<<"i", "f", " ", "x">>) \o Directive(<<"f", "o", "r", " ", "i", " ", "i", "n", " ", "x">>) \o Directive(<<"e", "n", "d", "i", "f">>)
              \o Directive(<<"e", "n", "d", "f", "o", "r">>)
    /\ exc = TemplateError("Unexpected end", <<1, 25>>, "None")
    /\ parsed = <<>>

\* the exception tells where it came from: a TemplateError by its position,
\* any other exception by the line info added to its message
CarriesPosition(e) ==
    IF e.type = "TemplateError" THEN e.position # <<>>
    ELSE e.args # <<>> /\ e.args[1].at # <<>>

\* C14: every error raised by the compilation or by the render of a template
\* carries the line and column of the directive that caused it, as the
\* position of a TemplateError or as line info added to the message
C14_ErrorsCarryPosition == pc = "raised" => CarriesPosition(exc)

\* the text of the literal nodes of nodes in source order, the bodies of
\* blocks included
RECURSIVE LiteralText(_)
LiteralText(nodes) ==
    IF nodes = <<>> THEN <<>>
    ELSE LET n == Head(nodes)
             own == CASE n.t = "str" -> n.v
                      [] n.t = "cond" -> LiteralText(n.parts)
                      [] n.t \in {"if", "elif", "else", "for", "def"} ->
                            LiteralText(n.content)
                      [] OTHER -> <<>>
         IN  own \o LiteralText(Tail(nodes))

IsText(c) == c.t = "str"

\* the text of a sequence of literal tokens
RECURSIVE TextOf(_)
TextOf(cs) == IF cs = <<>> THEN <<>> ELSE Head(cs).v \o TextOf(Tail(cs))

\* the source with every directive, its delimiters included, removed
Elided == TextOf(SelectSeq(lex_chunks(s, "None", line_offset).chunks, IsText))

IsNoSpace(c) == ~isspace(c)

\* text without its whitespace characters
NoSpace(text) == SelectSeq(text, IsNoSpace)

\* the sources whose directives are well formed one by one
WellFormedSources == PieceSources \cup WhitespaceSources

\* C15 as stated: for every source with balanced, correctly delimited
\* directives parse succeeds and the literal nodes of the result, taken in
\* source order through the block bodies, spell the source with every
\* directive removed
C15_LiteralsAreSourceWithoutDirectives ==
    (pc \in {"parsed", "raised"} /\ s \in WellFormedSources /\ WellNested) =>
        /\ pc = "parsed"
        /\ LiteralText(parsed) = Elided

\* C15 amended: for every such source parse succeeds, and the literal nodes
\* spell the source with every directive removed up to whitespace: the two
\* texts are equal once blanks, tabs and line breaks are deleted from both,
\* and the literal text is never longer than the source without directives
C15_LiteralsAreSourceUpToWhitespace ==
    /\ (pc \in {"parsed", "raised"} /\ s \in WellFormedSources /\ WellNested) =>
          pc = "parsed"
    /\ pc = "parsed" =>
          /\ NoSpace(LiteralText(parsed)) = NoSpace(Elided)
          /\ Len(LiteralText(parsed)) <= Len(Elided)

\* 'a\n{{if x}}\na{{endif}}\n' parses to the literal text 'a\na\n': the
\* line break after the if directive, which stands alone on its line, is gone
C15_Witness ==
    /\ pc = "parsed"
    /\ s = <<"a", "\n">> \o Directive(<<"i", "f", " ", "x">>) \o <<"\n", "a">> \o Directive(<<"e", "n", "d", "i", "f">>) \o <<"\n">>
    /\ LiteralText(parsed) = <<"a", "\n", "a", "\n">>
    /\ Elided = <<"a", "\n", "\n", "a", "\n">>

\* the conditional nodes of nodes, those inside block bodies included
RECURSIVE CondNodes(_)
CondNodes(nodes) ==
    IF nodes = <<>> THEN {}
    ELSE LET n == Head(nodes)
             own == CASE n.t = "cond" -> {n} \cup CondNodes(n.parts)
                      [] n.t \in {"if", "elif", "else", "for", "def"} ->
                            CondNodes(n.content)
                      [] OTHER -> {}
         IN  own \cup CondNodes(Tail(nodes))

\* one if branch first, then elif branches, then at most one else branch last
IfElifsElse(c) ==
    /\ c.parts # <<>>
    /\ c.parts[1].t = "if"
    /\ \A k \in 2..Len(c.parts) :
          \/ c.parts[k].t = "elif"
          \/ c.parts[k].t = "else" /\ k = Len(c.parts)

\* C16: every conditional node parse produces has exactly one if branch,
\* first, then zero or more elif branches, then at most one else branch,
\* last; a source with two else branches in one if block or an elif after the
\* else is not parsed
C16_CondShape == pc = "parsed" => \A c \in CondNodes(parsed) : IfElifsElse(c)

(***************************************************************************)
(* Claims about def blocks                                                 *)
(***************************************************************************)
\* the texts of items one after the other
RECURSIVE ItemsText(_)
ItemsText(items) ==
    IF items = <<>> THEN <<>> ELSE py_str(Head(items)) \o ItemsText(Tail(items))

\* what the mapping d binds k to, v when k is no key of it
Bound(d, k, v) == IF k \in DOMAIN d THEN d[k] ELSE v

\* C17: a call of a def block renders its body in a copy of the defining
\* namespace taken when the call is made.  In the render of
\*   {{def f}}{{v}}{{default w=2}}{{w}}{{for i in x}}{{i}}{{endfor}}
\*   {{def g}}{{enddef}}{{enddef}}{{default v=7}}{{f()}}{{default w=3}}{{w}}
\* the body sees the v bound after the def directive ran, and the w, i and g
\* the body binds are no keys of the caller's namespace after the call: the
\* later default binds w to 3
C17_DefCallCopiesNamespace ==
    (Finished /\ call.name = <<"d", "e", "f", "c", "o", "p", "y">>) =>
        LET ns == rt.heap[1]
            v == Bound(call.kw, <<"v">>, IntV(7))
            inner == Bound(call.kw, <<"w">>, IntV(2))
            outer == Bound(call.kw, <<"w">>, IntV(3))
        IN  /\ pc = "done"
            /\ output = py_str(v) \o py_str(inner) \o ItemsText(call.kw[<<"x">>].items)
                           \o py_str(outer)
            /\ DOMAIN ns = DOMAIN call.kw
                              \cup {<<"_", "_", "t", "e", "m", "p", "l", "a", "t", "e", "_", "n", "a", "m", "e", "_", "_">>, <<"v">>, <<"f">>, <<"w">>}
            /\ ns[<<"v">>] = v
            /\ ns[<<"w">>] = outer
            /\ ns[<<"x">>] = call.kw[<<"x">>]

\* x=[1, 2] and neither v nor w given: '72123'
C17_Witness ==
    /\ pc = "done"
    /\ call = [name |-> <<"d", "e", "f", "c", "o", "p", "y">>, kw |-> One(<<"x">>, ListV(<<IntV(1), IntV(2)>>))]
    /\ output = <<"7", "2", "1", "2", "3">>
    /\ <<"i">> \notin DOMAIN rt.heap[1]

(***************************************************************************)
(* Claims about trim_lex and the kinds of directives                       *)
(***************************************************************************)
IsComment(c) == c.t = "tup" /\ startswith(strip(c.v), <<"#">>)

\* the tokens T with a control directive in the place of every comment
CommentsAsControl(T) ==
    [j \in 1..Len(T) |-> IF IsComment(T[j]) THEN Tup(<<"e", "n", "d", "i", "f">>, T[j].pos) ELSE T[j]]

\* C18: trim_lex trims around a comment directive exactly as it would around
\* a control directive in its place: the literal tokens it leaves are those
\* it leaves when every comment of the source is a control directive instead
C18_CommentTrimmedLikeControl ==
    (pc = "lexed" /\ passes = 1) =>
        LET T == lex_chunks(s, "None", line_offset).chunks
            U == trim_lex(CommentsAsControl(T))
        IN  \A j \in 1..Len(T) : T[j].t = "str" => chunks[j] = U[j]

\* C19: trim_lex removes no whitespace on account of a directive that is no
\* control directive: a literal token with no control directive next to it
\* is left as lex produced it
C19_PlainExpressionNeverTrims ==
    (pc = "lexed" /\ passes = 1) =>
        LET T == lex_chunks(s, "None", line_offset).chunks
        IN  \A j \in 1..Len(T) :
               ( /\ T[j].t = "str"
                 /\ j > 1 => ~IsControl(T[j - 1].v)
                 /\ j < Len(T) => ~IsControl(T[j + 1].v) ) => chunks[j] = T[j]

\* the for nodes of nodes, those inside block bodies included
RECURSIVE ForNodes(_)
ForNodes(nodes) ==
    IF nodes = <<>> THEN {}
    ELSE LET n == Head(nodes)
             own == CASE n.t = "cond" -> ForNodes(n.parts)
                      [] n.t = "for" -> {n} \cup ForNodes(n.content)
                      [] n.t \in {"if", "elif", "else", "def"} -> ForNodes(n.content)
                      [] OTHER -> {}
         IN  own \cup ForNodes(Tail(nodes))

\* C20: every for node parse produces has at least one loop variable, and
\* none of its variables holds a parenthesis
C20_ForHasLoopVariable ==
    pc = "parsed" =>
        \A n \in ForNodes(parsed) :
            /\ Len(n.vars) >= 1
            /\ \A k \in 1..Len(n.vars) : "(" \notin Range(n.vars[k])

(***************************************************************************)
(* Claims about inheritance targets                                        *)
(***************************************************************************)
\* C21: the target a render inherits from is the value of the inherit
\* directive it executed last, in the top-level code or in the bodies of its
\* if and for blocks; an inherit directive executed by a def call leaves the
\* target alone.  In the render of
\*   {{def f}}{{inherit "plain"}}D{{enddef}}{{inherit p}}
\*   {{for i in x}}{{if i}}{{inherit q}}{{endif}}{{endfor}}{{f()}}C
\* the target is q when some item of x is truthy and p otherwise
C21_LastInheritWins ==
    (Finished /\ call.name = <<"l", "a", "s", "t", "i", "n", "h">>) =>
        LET items == call.kw[<<"x">>].items
            last == IF \E k \in 1..Len(items) : truthy(items[k])
                    THEN call.kw[<<"q">>] ELSE call.kw[<<"p">>]
        IN  /\ pc = "done"
            /\ chain[1].inherit = last
            /\ chain[1].result = <<"D", "C">>
            /\ CASE last = Str(<<>>) -> Len(chain) = 1 /\ output = <<"D", "C">>
                 [] last = Str(<<"p", "l", "a", "i", "n">>) ->
                       Len(chain) = 2 /\ chain[2].name = <<"p", "l", "a", "i", "n">> /\ output = <<"<", ">">>
                 [] OTHER ->
                       /\ Len(chain) = 2 /\ chain[2].name = <<"b", "a", "s", "e", "n", "s">>
                       /\ output = <<"[", "D", "C", "|", "9", "|", "b", "a", "s", "e", "n", "s", "]">>

\* p = "basens", x = [0, 1], q = "": the inherit of the loop body ran last and
\* its falsy value is the target, the def call after it changed nothing
C21_Witness ==
    /\ pc = "done"
    /\ call.name = <<"l", "a", "s", "t", "i", "n", "h">>
    /\ call.kw[<<"p">>] = Str(<<"b", "a", "s", "e", "n", "s">>)
    /\ call.kw[<<"q">>] = Str(<<>>)
    /\ call.kw[<<"x">>] = ListV(<<IntV(0), IntV(1)>>)
    /\ chain[1].inherit = Str(<<>>)
    /\ output = <<"D", "C">>
    /\ \E k \in 1..Len(rt.evals) : rt.evals[k].code = <<"\"", "p", "l", "a", "i", "n", "\"">>

(***************************************************************************)
(* Claims about positions                                                  *)
(***************************************************************************)
\* the greatest number of the non-empty set S
Max(S) == CHOOSE k \in S : \A j \in S : j <= k

\* The 1-based (line, column) of the character at offset index of the source,
\* counted from the start of the source: one line for every line break before
\* it, the column from the last of these line breaks on
ScratchPosition(index) ==
    LET breaks == {j \in 1..index : s[j] = "\n"}
    IN  <<line_offset + 1 + Cardinality(breaks), index - Max(breaks \cup {0}) + 1>>

\* C22: the position lex attaches to a directive token is the line and
\* column, counted from the start of the source and shifted by line_offset,
\* of the character right after the directive's opening delimiter; the k-th
\* directive token is opened by the delimiter match number 2k - 1
C22_PositionsFromScratch ==
    pc = "lexed" =>
        LET ds == SelectSeq(chunks, IsDirective)
            matches == finditer(s, 0)
        IN  /\ Len(matches) = 2 * Len(ds)
            /\ \A k \in 1..Len(ds) :
                  /\ matches[2 * k - 1].group = delimeters[1]
                  /\ ds[k].pos = ScratchPosition(matches[2 * k - 1].end)

\* '{{a}}{{\na}}\n{{a}}' lexed with line_offset 1: the directives are at
\* (2, 3), (2, 8) and (4, 3)
C22_Witness ==
    /\ pc = "lexed"
    /\ line_offset = 1
    /\ s = Directive(<<"a">>) \o Directive(<<"\n", "a">>) \o <<"\n">> \o Directive(<<"a">>)
    /\ SelectSeq(chunks, IsDirective)[1].pos = <<2, 3>>
    /\ SelectSeq(chunks, IsDirective)[2].pos = <<2, 8>>
    /\ SelectSeq(chunks, IsDirective)[3].pos = <<4, 3>>

(***************************************************************************)
(* Claims about repeated renders                                           *)
(***************************************************************************)
\* the caller's template as its compilation left it
Compiled ==
    Template(Library[call.name].content, call.name, Library[call.name].namespace,
             Library[call.name].get_template, Library[call.name].default_inherit,
             Library[call.name].default_filter).obj

\* C23: substitute changes neither the mapping the caller passed nor the
\* compiled template (its nodes and its compile-time namespace): what the
\* render binds lives in the render's own namespace only, and every render of
\* the template with that mapping, after renders that returned or raised,
\* ends as the first one did
C23_SubstituteLeavesArguments ==
    pc \in {"compiled", "done", "raised"} /\ held.template # NoneV =>
        /\ held.mapping = call.kw
        /\ held.template = Compiled
        /\ \A k \in 1..Len(history) : history[k] = history[1]
        /\ Finished =>
              /\ history[Len(history)] = Outcome(pc, output, exc)
              /\ <<"_", "_", "t", "e", "m", "p", "l", "a", "t", "e", "_", "n", "a", "m", "e", "_", "_">> \in DOMAIN rt.heap[1]
              /\ <<"_", "_", "t", "e", "m", "p", "l", "a", "t", "e", "_", "n", "a", "m", "e", "_", "_">> \notin DOMAIN held.mapping

\* the second render of '{{default x=1}}{{x}}' with an empty mapping: x was
\* bound by the first render in its own namespace, the mapping is still
\* empty and the default binds again
C23_Witness ==
    /\ pc = "done"
    /\ call = [name |-> <<"d", "e", "f", "a", "u", "l", "t">>, kw |-> <<>>]
    /\ Len(history) = 2
    /\ history[1] = Outcome("done", <<"1">>, NoExc)
    /\ output = <<"1">>
    /\ rt.heap[1][<<"x">>] = IntV(1)
    /\ held.mapping = <<>>

(***************************************************************************)
(* Claims about termination                                                *)
(***************************************************************************)
\* the library templates whose chain of inheritance targets leads back to a
\* template already in it
Cyclic == call.name \in {<<"l", "o", "o", "p">>, <<"p", "i", "n", "g">>, <<"p", "o", "n", "g">>}

\* the templates interpreted so far are the caller's template and then,
\* each after its child, the template the child named as its target
ChildBeforeParent ==
    /\ chain[1].name = call.name
    /\ \A k \in 2..Len(chain) : chain[k].name = chain[k - 1].target.v

\* no template was interpreted twice
EachOnce == \A j, k \in 1..Len(chain) : j < k => chain[j].name # chain[k].name

Returned == pc \in {"done", "raised"}

====
